---- MODULE Spec2Model ----
(***************************************************************************)
(* Verification model of the open-rts authoritative game server.           *)
(*                                                                         *)
(* The program consists of independent subsystems that are modelled by     *)
(* separate specifications over disjoint groups of variables:              *)
(*   SpecLobby   the three room registries (game-server/room-manager.ts,   *)
(*               lib/multiplayer.ts and the key-value-store lobby)         *)
(*   SpecRate    the per-player rate limiter (validator.ts)                *)
(*   SpecTick    the tick scheduler's input queues (tick-manager.ts)       *)
(*   SpecSched   the tick scheduler's drivers and snapshots                *)
(*   SpecEngine  the game engine (class GameEngine in room-manager.ts)     *)
(* Variables that a specification does not use stay at their initial value.*)
(***************************************************************************)
EXTENDS Integers, Sequences, FiniteSets, TLC

\* ------------------------------------------------------------------------
\* Bounds of the model (not program constants)
\* ------------------------------------------------------------------------
\* number of rooms that may be created in one behaviour
MaxRooms == 2

NULL == "null"

\* player ids the clients may present
PlayerIds == {"p1", "p2", "p3"}

\* ------------------------------------------------------------------------
\* Generic helpers for Map-like functions and arrays
\* ------------------------------------------------------------------------
MapPut(f, k, v) == [x \in (DOMAIN f) \cup {k} |-> IF x = k THEN v ELSE f[x]]

MapDelete(f, k) == [x \in (DOMAIN f) \ {k} |-> f[x]]

EmptyMap == [x \in {} |-> NULL]

RECURSIVE SeqFilterOut(_, _)
\* array.filter(p => p.id !== id)
SeqFilterOut(s, id) ==
  IF s = <<>> THEN <<>>
  ELSE IF Head(s).id = id THEN SeqFilterOut(Tail(s), id)
       ELSE <<Head(s)>> \o SeqFilterOut(Tail(s), id)

SeqIds(s) == {s[i].id : i \in 1..Len(s)}

SeqFind(s, id) == CHOOSE i \in 1..Len(s) : s[i].id = id

VARIABLES
  impl,          \* which room registry this behaviour exercises: "rm" | "ml" | "kv"
  roomCounter,   \* number of room ids generated so far (ids are never reused)
  rmRooms,       \* room-manager.ts: rooms (Map roomId -> GameRoom)
  mlRooms,       \* multiplayer.ts: rooms (Map roomId -> Room)
  mlPlayerRooms, \* multiplayer.ts: playerRooms (Map playerId -> roomId)
  kvRooms,       \* key-value lobby: the blobs stored under a room id
  kvPlayerKey,   \* key-value lobby: the blobs stored under `player:${id}`
  kvHostKey,     \* key-value lobby: the blobs stored under `host:${id}`
  kvCalls        \* key-value lobby: the calls in flight, each between two awaits

lobbyVars == <<impl, roomCounter, rmRooms, mlRooms, mlPlayerRooms,
               kvRooms, kvPlayerKey, kvHostKey, kvCalls>>

VARIABLES
  now,             \* validator.ts: Date.now(), in rate-limiter time units
  playerRateLimits,\* validator.ts: playerRateLimits (Map playerId -> PlayerRateLimit)
  passed,          \* history: the times at which checkRateLimit returned valid, per player
  refused          \* history: per player, the time of the player's last checkRateLimit call when
                   \* that call was refused at the per-minute limit, -1 otherwise

rateVars == <<now, playerRateLimits, passed, refused>>

VARIABLES
  tmStatus,      \* tick-manager.ts: room.status, "none" before createTickManager
  tmIntervals,   \* tick-manager.ts: number of live tick-loop intervals of the room
  tmHandle,      \* tick-manager.ts: room.tickInterval is not null
  tickCount,     \* tick-manager.ts: room.tickCount
  lastTick,      \* tick-manager.ts: room.lastTick
  tmPlayers,     \* tick-manager.ts: room.players, in Map order: [id, pendingInputs]
  inputCounter,  \* number of inputs submitted so far (each input gets a fresh id)
  tmEngineOver,  \* what room.engine.isGameOver() returns
  applied,       \* history: the engine.processAction calls of the tick loop, in order
  discarded      \* history: inputs the tick loop removed without applying them

tickVars == <<tmStatus, tmIntervals, tmHandle, tickCount, lastTick, tmPlayers, inputCounter,
              tmEngineOver, applied, discarded>>

VARIABLES
  tmEngineTick,  \* room-manager.ts: the tick field of the engine behind the scheduler
  snapshots,     \* history: the tick numbers of the snapshots broadcast, in order
  resumedAt      \* history: room.tickCount at the last resumeTickManager that returned true
                 \* since the last start, -1 when there was none (kept in the
                 \* life-cycle behaviours only)

schedVars == <<tmEngineTick, snapshots, resumedAt>>

VARIABLES
  roomPlayers,   \* room-manager.ts: the ids of room.players of the room in play, in insertion order
  roomHostId,    \* room-manager.ts: room.hostId
  mapGen         \* room-manager.ts: generateMap in the engine's constructor: the loop it is in, the
                 \* iterations left, the generator's state, the resources placed (map.resources)

roomVars == <<roomPlayers, roomHostId, mapGen>>

VARIABLES
  engine,        \* room-manager.ts: the fields of one GameEngine object
  actionCount,   \* history: number of engine.processAction calls that returned true
  lastAction     \* history: the last such call, [playerId, action]

engVars == <<engine, actionCount, lastAction>>

VARIABLES
  connections,       \* part_002: GameWebSocketHandler.connections (Map connectionId -> connection)
  playerConnections, \* part_002: playerConnections (Map playerId -> connectionId)
  connCounter,       \* number of connection ids created so far (createConnectionId never repeats one)
  sent               \* history: the last sendToPlayer call: the player, the connection whose socket
                     \* got the message (0: none), the player's open connections at the call

wsVars == <<connections, playerConnections, connCounter, sent>>

\* ------------------------------------------------------------------------
\* Lobby constants
\* ------------------------------------------------------------------------
HostColor == "#4169E1"

GuestColor == "#DC143C"

\* config.maxPlayers / room.maxPlayers
MaxPlayers == 2

NewPlayer(id, team) ==
  [id |-> id, team |-> team, ready |-> FALSE,
   color |-> IF team = "host" THEN HostColor ELSE GuestColor]

\* ------------------------------------------------------------------------
\* room-manager.ts (game-server room registry)
\* ------------------------------------------------------------------------
RMCreateRoom(hostId) ==
  /\ impl = "rm"
  /\ roomCounter < MaxRooms
  /\ roomCounter' = roomCounter + 1
  /\ rmRooms' = MapPut(rmRooms, roomCounter + 1,
                  [players |-> <<NewPlayer(hostId, "host")>>,
                   status |-> "waiting", engine |-> FALSE,
                   hostId |-> hostId, expired |-> FALSE])
  /\ UNCHANGED <<rateVars, tickVars, engVars, schedVars, roomVars, impl, kvCalls, wsVars, mlRooms, mlPlayerRooms, kvRooms, kvPlayerKey, kvHostKey>>

\* room.players.size >= room.config.maxPlayers
RMRoomFull_OffByOne(room) == Len(room.players) > MaxPlayers

RMRoomFull(room) == Len(room.players) >= MaxPlayers

\* the result of joinRoom: <<new rooms, returned a room>>
RMJoinResult(roomId, playerId) ==
  IF roomId \notin DOMAIN rmRooms THEN <<rmRooms, FALSE>>
  ELSE LET room == rmRooms[roomId] IN
    IF room.status # "waiting" THEN <<rmRooms, FALSE>>
    ELSE IF RMRoomFull(room) THEN <<rmRooms, FALSE>>
    ELSE IF playerId \in SeqIds(room.players) THEN <<rmRooms, TRUE>>
    ELSE <<[rmRooms EXCEPT ![roomId].players = Append(@, NewPlayer(playerId, "guest"))],
           TRUE>>

RMJoinRoom(roomId, playerId) ==
  /\ impl = "rm"
  /\ rmRooms' = RMJoinResult(roomId, playerId)[1]
  /\ UNCHANGED <<rateVars, tickVars, engVars, schedVars, roomVars, impl, kvCalls, wsVars, roomCounter, mlRooms, mlPlayerRooms, kvRooms, kvPlayerKey, kvHostKey>>

\* the room leaveRoom acts on: the first room, in insertion order, holding the player
RMRoomOf(playerId) ==
  LET holding == {r \in DOMAIN rmRooms : playerId \in SeqIds(rmRooms[r].players)}
  IN IF holding = {} THEN 0 ELSE CHOOSE r \in holding : \A q \in holding : r <= q

\* "Assign new host": the first remaining player gets the host team and colour
PromoteFirst(players) ==
  [players EXCEPT ![1].team = "host", ![1].color = HostColor]

RMLeaveResult(playerId) ==
  LET roomId == RMRoomOf(playerId) IN
  IF roomId = 0 THEN rmRooms
  ELSE LET room == rmRooms[roomId]
           rest == SeqFilterOut(room.players, playerId)
       IN IF room.hostId = playerId
          THEN IF Len(rest) > 0
               THEN [rmRooms EXCEPT ![roomId].players = PromoteFirst(rest),
                                    ![roomId].hostId = rest[1].id]
               ELSE MapDelete(rmRooms, roomId)
          ELSE IF room.status = "waiting" /\ Len(rest) = 0
               THEN MapDelete(rmRooms, roomId)
               ELSE [rmRooms EXCEPT ![roomId].players = rest]

RMLeaveRoom(playerId) ==
  /\ impl = "rm"
  /\ rmRooms' = RMLeaveResult(playerId)
  /\ UNCHANGED <<rateVars, tickVars, engVars, schedVars, roomVars, impl, kvCalls, wsVars, roomCounter, mlRooms, mlPlayerRooms, kvRooms, kvPlayerKey, kvHostKey>>

RMSetPlayerReady(roomId, playerId, ready) ==
  /\ impl = "rm"
  /\ LET ok == roomId \in DOMAIN rmRooms /\ playerId \in SeqIds(rmRooms[roomId].players) IN
     /\ rmRooms' = IF ok
                   THEN [rmRooms EXCEPT ![roomId].players[SeqFind(rmRooms[roomId].players, playerId)].ready = ready]
                   ELSE rmRooms
  /\ UNCHANGED <<rateVars, tickVars, engVars, schedVars, roomVars, impl, kvCalls, wsVars, roomCounter, mlRooms, mlPlayerRooms, kvRooms, kvPlayerKey, kvHostKey>>

AllReady(players) == \A i \in 1..Len(players) : players[i].ready

\* whether startGame goes on to create the engine
RMStartAllowed(roomId, hostId) ==
  /\ roomId \in DOMAIN rmRooms
  /\ rmRooms[roomId].hostId = hostId
  /\ rmRooms[roomId].status = "waiting"
  /\ ~(~AllReady(rmRooms[roomId].players) /\ Len(rmRooms[roomId].players) > 1)

RMStartGame(roomId, hostId) ==
  /\ impl = "rm"
  /\ rmRooms' = IF RMStartAllowed(roomId, hostId)
                THEN [rmRooms EXCEPT ![roomId].engine = TRUE, ![roomId].status = "playing"]
                ELSE rmRooms
  /\ UNCHANGED <<rateVars, tickVars, engVars, schedVars, roomVars, impl, kvCalls, wsVars, roomCounter, mlRooms, mlPlayerRooms, kvRooms, kvPlayerKey, kvHostKey>>

\* the tick interval of a playing room finds engine.isGameOver() and calls endGame
RMEndGame(roomId) ==
  /\ impl = "rm"
  /\ roomId \in DOMAIN rmRooms
  /\ rmRooms[roomId].status = "playing"
  /\ rmRooms' = [rmRooms EXCEPT ![roomId].status = "ended"]
  /\ UNCHANGED <<rateVars, tickVars, engVars, schedVars, roomVars, impl, kvCalls, wsVars, roomCounter, mlRooms, mlPlayerRooms, kvRooms, kvPlayerKey, kvHostKey>>

\* the rooms the periodic cleanup removes: every room older than one hour
RMSwept == {r \in DOMAIN rmRooms : rmRooms[r].expired}

\* the periodic cleanup
RMPeriodicCleanup ==
  /\ impl = "rm"
  /\ rmRooms' = [r \in (DOMAIN rmRooms) \ RMSwept |-> rmRooms[r]]
  /\ UNCHANGED <<rateVars, tickVars, engVars, schedVars, roomVars, impl, kvCalls, wsVars, roomCounter, mlRooms, mlPlayerRooms, kvRooms, kvPlayerKey, kvHostKey>>

\* ------------------------------------------------------------------------
\* lib/multiplayer.ts (in-memory lobby used by the HTTP route)
\* ------------------------------------------------------------------------
MLCreateRoom(hostId) ==
  /\ impl = "ml"
  /\ roomCounter < MaxRooms
  /\ roomCounter' = roomCounter + 1
  /\ mlRooms' = MapPut(mlRooms, roomCounter + 1,
                  [players |-> <<NewPlayer(hostId, "host")>>, host |-> hostId,
                   gameStarted |-> FALSE, expired |-> FALSE])
  /\ mlPlayerRooms' = MapPut(mlPlayerRooms, hostId, roomCounter + 1)
  /\ UNCHANGED <<rateVars, tickVars, engVars, schedVars, roomVars, impl, kvCalls, wsVars, rmRooms, kvRooms, kvPlayerKey, kvHostKey>>

\* leaveRoom on a registry state [rooms, playerRooms]; returns the new state
MLLeaveResult(st, playerId) ==
  IF playerId \notin DOMAIN st.playerRooms THEN st
  ELSE LET roomId == st.playerRooms[playerId] IN
    IF roomId \notin DOMAIN st.rooms THEN st
    ELSE LET room == st.rooms[roomId]
             rest == SeqFilterOut(room.players, playerId)
             pr   == MapDelete(st.playerRooms, playerId)
         IN IF Len(rest) = 0
            THEN [rooms |-> MapDelete(st.rooms, roomId), playerRooms |-> pr]
            ELSE IF room.host = playerId
                 THEN [rooms |-> [st.rooms EXCEPT ![roomId].players = PromoteFirst(rest),
                                                  ![roomId].host = rest[1].id],
                       playerRooms |-> pr]
                 ELSE [rooms |-> [st.rooms EXCEPT ![roomId].players = rest],
                       playerRooms |-> pr]

MLState == [rooms |-> mlRooms, playerRooms |-> mlPlayerRooms]

\* joinRoom: <<new registry state, returned a room>>
MLJoinResult(roomId, playerId) ==
  IF \/ roomId \notin DOMAIN mlRooms
     \/ mlRooms[roomId].gameStarted
     \/ Len(mlRooms[roomId].players) >= MaxPlayers
  THEN <<MLState, FALSE>>
  ELSE IF playerId \in SeqIds(mlRooms[roomId].players) THEN <<MLState, TRUE>>
  ELSE LET left == MLLeaveResult(MLState, playerId) IN
    <<[rooms |-> IF roomId \in DOMAIN left.rooms
                 THEN [left.rooms EXCEPT ![roomId].players =
                                           Append(@, NewPlayer(playerId, "guest"))]
                 ELSE left.rooms,
       playerRooms |-> MapPut(left.playerRooms, playerId, roomId)],
      TRUE>>

MLJoinRoom(roomId, playerId) ==
  /\ impl = "ml"
  /\ mlRooms' = MLJoinResult(roomId, playerId)[1].rooms
  /\ mlPlayerRooms' = MLJoinResult(roomId, playerId)[1].playerRooms
  /\ UNCHANGED <<rateVars, tickVars, engVars, schedVars, roomVars, impl, kvCalls, wsVars, roomCounter, rmRooms, kvRooms, kvPlayerKey, kvHostKey>>

\* the room leaveRoom acts on (0: none)
MLRoomOf(playerId) ==
  IF playerId \in DOMAIN mlPlayerRooms /\ mlPlayerRooms[playerId] \in DOMAIN mlRooms
  THEN mlPlayerRooms[playerId] ELSE 0

MLLeaveRoom(playerId) ==
  /\ impl = "ml"
  /\ mlRooms' = MLLeaveResult(MLState, playerId).rooms
  /\ mlPlayerRooms' = MLLeaveResult(MLState, playerId).playerRooms
  /\ UNCHANGED <<rateVars, tickVars, engVars, schedVars, roomVars, impl, kvCalls, wsVars, roomCounter, rmRooms, kvRooms, kvPlayerKey, kvHostKey>>

MLToggleReady(roomId, playerId) ==
  /\ impl = "ml"
  /\ LET ok == roomId \in DOMAIN mlRooms /\ playerId \in SeqIds(mlRooms[roomId].players) IN
     /\ mlRooms' = IF ok
                   THEN [mlRooms EXCEPT
                           ![roomId].players[SeqFind(mlRooms[roomId].players, playerId)].ready = ~@]
                   ELSE mlRooms
  /\ UNCHANGED <<rateVars, tickVars, engVars, schedVars, roomVars, impl, kvCalls, wsVars, roomCounter, rmRooms, mlPlayerRooms, kvRooms, kvPlayerKey, kvHostKey>>

\* whether startGame sets gameStarted and returns the room
MLStartAllowed(roomId, playerId) ==
  /\ roomId \in DOMAIN mlRooms
  /\ mlRooms[roomId].host = playerId
  /\ AllReady(mlRooms[roomId].players)

MLStartGame(roomId, playerId) ==
  /\ impl = "ml"
  /\ mlRooms' = IF MLStartAllowed(roomId, playerId)
                THEN [mlRooms EXCEPT ![roomId].gameStarted = TRUE]
                ELSE mlRooms
  /\ UNCHANGED <<rateVars, tickVars, engVars, schedVars, roomVars, impl, kvCalls, wsVars, roomCounter, rmRooms, mlPlayerRooms, kvRooms, kvPlayerKey, kvHostKey>>

\* the rooms cleanupRooms(maxAgeMs) removes, with the default maxAgeMs of one hour
MLSwept == {r \in DOMAIN mlRooms : mlRooms[r].expired /\ ~mlRooms[r].gameStarted}

MLCleanupRooms ==
  /\ impl = "ml"
  /\ LET gone == MLSwept
         ids  == UNION {SeqIds(mlRooms[r].players) : r \in gone}
     IN /\ mlRooms' = [r \in (DOMAIN mlRooms) \ gone |-> mlRooms[r]]
        /\ mlPlayerRooms' = [p \in (DOMAIN mlPlayerRooms) \ ids |-> mlPlayerRooms[p]]
  /\ UNCHANGED <<rateVars, tickVars, engVars, schedVars, roomVars, impl, kvCalls, wsVars, roomCounter, rmRooms, kvRooms, kvPlayerKey, kvHostKey>>

\* ------------------------------------------------------------------------
\* Key-value-store lobby (the blob-store variant of lib/multiplayer.ts).
\* Each exported function is modelled as one atomic step: the store is
\* taken to be available (getRoomsStore() does not return null).
\* ------------------------------------------------------------------------
KVState == [rooms |-> kvRooms, playerKey |-> kvPlayerKey, hostKey |-> kvHostKey]

KVCreateRoom(hostId) ==
  /\ impl = "kv"
  /\ roomCounter < MaxRooms
  /\ roomCounter' = roomCounter + 1
  /\ kvRooms' = MapPut(kvRooms, roomCounter + 1,
                  [players |-> <<NewPlayer(hostId, "host")>>, host |-> hostId,
                   gameStarted |-> FALSE, expired |-> FALSE])
  /\ kvHostKey' = MapPut(kvHostKey, hostId, roomCounter + 1)
  /\ UNCHANGED <<rateVars, tickVars, engVars, schedVars, roomVars, impl, kvCalls, wsVars, rmRooms, mlRooms, mlPlayerRooms, kvPlayerKey>>

\* leaveRoom on a store state; returns the new store state
KVLeaveResult(st, playerId) ==
  IF playerId \notin DOMAIN st.playerKey THEN st
  ELSE LET roomId == st.playerKey[playerId] IN
    IF roomId \notin DOMAIN st.rooms THEN st
    ELSE LET room == st.rooms[roomId]
             rest == SeqFilterOut(room.players, playerId)
             pk   == MapDelete(st.playerKey, playerId)
         IN IF Len(rest) = 0
            THEN [rooms |-> MapDelete(st.rooms, roomId), playerKey |-> pk,
                  hostKey |-> IF room.host = playerId
                              THEN MapDelete(st.hostKey, playerId) ELSE st.hostKey]
            ELSE IF room.host = playerId
                 THEN [rooms |-> MapPut(st.rooms, roomId,
                                   [room EXCEPT !.players = PromoteFirst(rest),
                                                !.host = rest[1].id]),
                       playerKey |-> pk, hostKey |-> st.hostKey]
                 ELSE [rooms |-> MapPut(st.rooms, roomId, [room EXCEPT !.players = rest]),
                       playerKey |-> pk, hostKey |-> st.hostKey]

\* joinRoom: <<new store state, returned a room>>
KVJoinResult(roomId, playerId) ==
  IF \/ roomId \notin DOMAIN kvRooms
     \/ kvRooms[roomId].gameStarted
     \/ Len(kvRooms[roomId].players) >= MaxPlayers
  THEN <<KVState, FALSE>>
  ELSE IF playerId \in SeqIds(kvRooms[roomId].players) THEN <<KVState, TRUE>>
  ELSE LET left == KVLeaveResult(KVState, playerId)
           room == kvRooms[roomId]
       IN <<[rooms |-> MapPut(left.rooms, roomId,
                         [room EXCEPT !.players = Append(@, NewPlayer(playerId, "guest"))]),
             playerKey |-> MapPut(left.playerKey, playerId, roomId),
             hostKey |-> left.hostKey],
            TRUE>>

KVJoinRoom(roomId, playerId) ==
  /\ impl = "kv"
  /\ kvRooms' = KVJoinResult(roomId, playerId)[1].rooms
  /\ kvPlayerKey' = KVJoinResult(roomId, playerId)[1].playerKey
  /\ kvHostKey' = KVJoinResult(roomId, playerId)[1].hostKey
  /\ UNCHANGED <<rateVars, tickVars, engVars, schedVars, roomVars, impl, kvCalls, wsVars, roomCounter, rmRooms, mlRooms, mlPlayerRooms>>

\* the room a leaveRoom call is about: the room leaveRoom finds under the
\* player key or, when there is no such key, the first stored room that
\* lists the player (0: the player is in no room)
KVRoomOf(playerId) ==
  IF playerId \in DOMAIN kvPlayerKey /\ kvPlayerKey[playerId] \in DOMAIN kvRooms
  THEN kvPlayerKey[playerId]
  ELSE LET holding == {r \in DOMAIN kvRooms : playerId \in SeqIds(kvRooms[r].players)}
       IN IF holding = {} THEN 0 ELSE CHOOSE r \in holding : \A q \in holding : r <= q

KVLeaveRoom(playerId) ==
  /\ impl = "kv"
  /\ kvRooms' = KVLeaveResult(KVState, playerId).rooms
  /\ kvPlayerKey' = KVLeaveResult(KVState, playerId).playerKey
  /\ kvHostKey' = KVLeaveResult(KVState, playerId).hostKey
  /\ UNCHANGED <<rateVars, tickVars, engVars, schedVars, roomVars, impl, kvCalls, wsVars, roomCounter, rmRooms, mlRooms, mlPlayerRooms>>

KVToggleReady(roomId, playerId) ==
  /\ impl = "kv"
  /\ LET ok == roomId \in DOMAIN kvRooms /\ playerId \in SeqIds(kvRooms[roomId].players) IN
     /\ kvRooms' = IF ok
                   THEN [kvRooms EXCEPT
                           ![roomId].players[SeqFind(kvRooms[roomId].players, playerId)].ready = ~@]
                   ELSE kvRooms
  /\ UNCHANGED <<rateVars, tickVars, engVars, schedVars, roomVars, impl, kvCalls, wsVars, roomCounter, rmRooms, mlRooms, mlPlayerRooms, kvPlayerKey, kvHostKey>>

KVStartAllowed(roomId, playerId) ==
  /\ roomId \in DOMAIN kvRooms
  /\ kvRooms[roomId].host = playerId
  /\ AllReady(kvRooms[roomId].players)

KVStartGame(roomId, playerId) ==
  /\ impl = "kv"
  /\ kvRooms' = IF KVStartAllowed(roomId, playerId)
                THEN [kvRooms EXCEPT ![roomId].gameStarted = TRUE]
                ELSE kvRooms
  /\ UNCHANGED <<rateVars, tickVars, engVars, schedVars, roomVars, impl, kvCalls, wsVars, roomCounter, rmRooms, mlRooms, mlPlayerRooms, kvPlayerKey, kvHostKey>>

\* the rooms cleanupRooms removes
KVSwept == {r \in DOMAIN kvRooms : kvRooms[r].expired /\ ~kvRooms[r].gameStarted}

\* cleanupRooms: room blobs only; the host: and player: keys stay
KVCleanupRooms ==
  /\ impl = "kv"
  /\ kvRooms' = [r \in (DOMAIN kvRooms) \ KVSwept |-> kvRooms[r]]
  /\ UNCHANGED <<rateVars, tickVars, engVars, schedVars, roomVars, impl, kvCalls, wsVars, roomCounter, rmRooms, mlRooms, mlPlayerRooms, kvPlayerKey, kvHostKey>>

\* ------------------------------------------------------------------------
\* validator.ts: the per-player rate limiter.
\* Time is counted in units of half a "second" window; the limits and the
\* window lengths are scaled down (see the bounds) and keep their order:
\* second window < minute window < clean-up age.
\* ------------------------------------------------------------------------
\* the clock stops at MaxNow
MaxNow == 32

\* DEFAULT_RATE_LIMIT.maxActionsPerSecond (10 in the source)
MaxActionsPerSecond == 2

\* DEFAULT_RATE_LIMIT.maxActionsPerMinute (300 in the source)
MaxActionsPerMinute == 3

\* the 1000 ms of the recentActions filter
SecondWindow == 2

\* the 60000 ms of the minute-counter reset
MinuteWindow == 6

\* the 300000 ms of cleanupRateLimits: five minute windows
CleanupAge == 5 * MinuteWindow

RateClients == {"p1"}

\* recentActions.filter(t => now - t < 1000)
RecentFilter(times, t) == SelectSeq(times, LAMBDA a : t - a < SecondWindow)

\* the entry checkRateLimit works on: the stored one or a new one
RateEntry(playerId) ==
  IF playerId \in DOMAIN playerRateLimits
  THEN playerRateLimits[playerId]
  ELSE [minuteCount |-> 0, lastActionTime |-> now, recentActions |-> <<>>]

\* whether the minute counter is reset by this call
MinuteResetDue(entry) == now - entry.lastActionTime >= MinuteWindow

\* checkRateLimit: <<entry stored afterwards, valid>>
CheckRateLimitResult(playerId) ==
  LET e0 == RateEntry(playerId)
      e1 == [e0 EXCEPT !.recentActions = RecentFilter(@, now)]
  IN IF Len(e1.recentActions) >= MaxActionsPerSecond THEN <<e1, FALSE>>
     ELSE IF e1.minuteCount >= MaxActionsPerMinute THEN <<e1, FALSE>>
     ELSE LET e2 == [e1 EXCEPT !.recentActions = Append(@, now)]
              e3 == IF MinuteResetDue(e2)
                    THEN [e2 EXCEPT !.minuteCount = 0, !.lastActionTime = now]
                    ELSE e2
          IN <<[e3 EXCEPT !.minuteCount = @ + 1], TRUE>>

\* the history keeps what a window ending now can still contain
PassedSince(times, t) == SelectSeq(times, LAMBDA a : t - a < MinuteWindow)

\* checkRateLimit returns 'Rate limit exceeded: too many actions per minute'
MinuteRefused(playerId) ==
  /\ ~CheckRateLimitResult(playerId)[2]
  /\ Len(RecentFilter(RateEntry(playerId).recentActions, now)) < MaxActionsPerSecond

CheckRateLimit(playerId) ==
  /\ impl = "rate"
  /\ refused' = [refused EXCEPT ![playerId] = IF MinuteRefused(playerId) THEN now ELSE -1]
  /\ playerRateLimits' = MapPut(playerRateLimits, playerId, CheckRateLimitResult(playerId)[1])
  /\ passed' = [passed EXCEPT ![playerId] =
                  IF CheckRateLimitResult(playerId)[2]
                  THEN Append(PassedSince(@, now), now) ELSE PassedSince(@, now)]
  /\ UNCHANGED <<now, tickVars, lobbyVars, wsVars, engVars, schedVars, roomVars>>

CleanupRateLimits ==
  /\ impl = "rate"
  /\ playerRateLimits' =
       [q \in {c \in DOMAIN playerRateLimits :
                 ~(now - playerRateLimits[c].lastActionTime > CleanupAge)}
          |-> playerRateLimits[q]]
  /\ UNCHANGED <<now, passed, refused, tickVars, lobbyVars, wsVars, engVars, schedVars, roomVars>>

ClockTick ==
  /\ impl = "rate"
  /\ now < MaxNow
  /\ now' = now + 1
  /\ passed' = [c \in RateClients |-> PassedSince(passed[c], now + 1)]
  /\ UNCHANGED <<playerRateLimits, refused, tickVars, lobbyVars, wsVars, engVars, schedVars, roomVars>>

\* ------------------------------------------------------------------------
\* tick-manager.ts: the tick scheduler of one managed room.
\* The engine behind it is abstract here: processAction calls are recorded
\* in `applied`, and isGameOver() may turn true at any update and stays true.
\* ------------------------------------------------------------------------
\* the tick loop stops counting at MaxTmTick
MaxTmTick == 3

\* number of inputs the clients submit in one behaviour
MaxInputs == 3

\* number of tick-loop intervals that may be alive at once
MaxIntervals == 2

\* engine ticks behind one scheduler
MaxTmEngineTick == 4

\* number of snapshots broadcast in one behaviour
MaxSnapshots == 3

\* the behaviours that run the scheduler: "tick" exercises the input queues,
\* "sched" the life cycle of the two drivers and the snapshot loop, "flood"
\* one player's queue filled up to its cap
TmImpls == {"tick", "sched", "flood"}

\* the behaviours in which clients submit inputs
QueueImpls == {"tick", "flood"}

TmPlayerIds == {"p1", "p2"}

\* the ticks a client may declare for an input
DeclaredTicks == 1..MaxTmTick

\* "Keep only last 60 inputs"
PendingCap == 60

\* number of inputs submitted in one behaviour: one more than the cap of a
\* queue when the behaviour fills a queue
InputBound == IF impl = "flood" THEN PendingCap + 1 ELSE MaxInputs

\* slice(-60)
LastN(q, n) == IF Len(q) > n THEN SubSeq(q, Len(q) - n + 1, Len(q)) ELSE q

CreateTickManager ==
  /\ impl \in TmImpls
  /\ tmStatus = "none"
  /\ tmStatus' = "stopped"
  /\ UNCHANGED <<tmIntervals, tmHandle, tickCount, lastTick, tmPlayers, inputCounter,
                 tmEngineOver, applied, discarded, rateVars, lobbyVars, wsVars, engVars, schedVars, roomVars>>

\* room.players.set(playerId, {..., pendingInputs: []})
TmAddPlayer(playerId) ==
  /\ impl \in QueueImpls
  /\ tmStatus # "none"
  /\ tmPlayers' = IF playerId \in SeqIds(tmPlayers)
                  THEN [tmPlayers EXCEPT ![SeqFind(tmPlayers, playerId)].pendingInputs = <<>>]
                  ELSE Append(tmPlayers, [id |-> playerId, pendingInputs |-> <<>>])
  /\ UNCHANGED <<tmStatus, tmIntervals, tmHandle, tickCount, lastTick, inputCounter,
                 tmEngineOver, applied, discarded, rateVars, lobbyVars, wsVars, engVars, schedVars, roomVars>>

TmRemovePlayer(playerId) ==
  /\ impl = "tick"
  /\ tmStatus # "none"
  /\ tmPlayers' = SeqFilterOut(tmPlayers, playerId)
  /\ UNCHANGED <<tmStatus, tmIntervals, tmHandle, tickCount, lastTick, inputCounter,
                 tmEngineOver, applied, discarded, rateVars, lobbyVars, wsVars, engVars, schedVars, roomVars>>

\* submitInput returns true
SubmitAccepted(playerId) == tmStatus = "running" /\ playerId \in SeqIds(tmPlayers)

SubmitInput(playerId, tick) ==
  /\ impl \in QueueImpls
  /\ tmStatus # "none"
  /\ inputCounter < InputBound
  /\ inputCounter' = inputCounter + 1
  /\ tmPlayers' = IF SubmitAccepted(playerId)
                  THEN [tmPlayers EXCEPT ![SeqFind(tmPlayers, playerId)].pendingInputs =
                          LastN(Append(@, [id |-> inputCounter + 1, tick |-> tick]),
                                PendingCap)]
                  ELSE tmPlayers
  /\ UNCHANGED <<tmStatus, tmIntervals, tmHandle, tickCount, lastTick,
                 tmEngineOver, applied, discarded, rateVars, lobbyVars, wsVars, engVars, schedVars, roomVars>>

\* startTickManager: the new intervals replace the stored handles; intervals
\* that were not cleared (a start while paused) keep firing
StartTickManager ==
  /\ impl \in TmImpls
  /\ tmStatus \notin {"none", "running"}
  /\ tmIntervals < MaxIntervals
  /\ tmStatus' = "running"
  /\ lastTick' = 0
  /\ tickCount' = 0
  /\ tmIntervals' = tmIntervals + 1
  /\ tmHandle' = TRUE
  /\ resumedAt' = -1
  /\ UNCHANGED <<tmPlayers, inputCounter, tmEngineOver, applied, discarded,
                 rateVars, lobbyVars, wsVars, engVars, tmEngineTick, snapshots, roomVars>>

\* stopTickManager clears the interval room.tickInterval refers to
IntervalsAfterStop == IF tmHandle THEN tmIntervals - 1 ELSE tmIntervals

StopTickManager ==
  /\ impl \in TmImpls
  /\ tmStatus # "none"
  /\ tmStatus' = "stopped"
  /\ tmIntervals' = IntervalsAfterStop
  /\ tmHandle' = FALSE
  /\ UNCHANGED <<tickCount, lastTick, tmPlayers, inputCounter, tmEngineOver,
                 applied, discarded, rateVars, lobbyVars, wsVars, engVars, schedVars, roomVars>>

PauseTickManager ==
  /\ impl \in TmImpls
  /\ tmStatus = "running"
  /\ tmStatus' = "paused"
  /\ UNCHANGED <<tmIntervals, tmHandle, tickCount, lastTick, tmPlayers, inputCounter,
                 tmEngineOver, applied, discarded, rateVars, lobbyVars, wsVars, engVars, schedVars, roomVars>>

\* resumeTickManager restarting the counters as startTickManager does
ResumeTickManager_ResetsCount ==
  /\ impl \in TmImpls
  /\ tmStatus = "paused"
  /\ tmStatus' = "running"
  /\ tickCount' = 0
  /\ lastTick' = 0
  /\ resumedAt' = IF impl = "sched" THEN tickCount ELSE resumedAt
  /\ UNCHANGED <<tmIntervals, tmHandle, tmPlayers, inputCounter,
                 tmEngineOver, applied, discarded, rateVars, lobbyVars, wsVars, engVars,
                 tmEngineTick, snapshots, roomVars>>

ResumeTickManager ==
  /\ impl \in TmImpls
  /\ tmStatus = "paused"
  /\ tmStatus' = "running"
  /\ resumedAt' = IF impl = "sched" THEN tickCount ELSE resumedAt
  /\ UNCHANGED <<tmIntervals, tmHandle, tickCount, lastTick, tmPlayers, inputCounter,
                 tmEngineOver, applied, discarded, rateVars, lobbyVars, wsVars, engVars,
                 tmEngineTick, snapshots, roomVars>>

\* pendingInputs.filter(i => i.tick === currentTick)
TickInputs(q, currentTick) == SelectSeq(q, LAMBDA i : i.tick = currentTick)

\* pendingInputs.filter(i => i.tick > currentTick)
KeptInputs(q, currentTick) == SelectSeq(q, LAMBDA i : i.tick > currentTick)

\* the engine.processAction calls of one tick: for each player in Map
\* order, the player's inputs for this tick in queue order
RECURSIVE AppliedBy(_, _)
AppliedBy(players, currentTick) ==
  IF players = <<>> THEN <<>>
  ELSE LET mine == TickInputs(Head(players).pendingInputs, currentTick)
       IN [k \in 1..Len(mine) |-> [player |-> Head(players).id, id |-> mine[k].id,
                                     tick |-> mine[k].tick, at |-> currentTick]]
          \o AppliedBy(Tail(players), currentTick)

\* the inputs of a queue that the tick loop removes without applying them
Lost(q, currentTick) ==
  {q[k].id : k \in {j \in 1..Len(q) :
                      q[j] \notin {TickInputs(q, currentTick)[m] :
                                     m \in 1..Len(TickInputs(q, currentTick))}
                      /\ q[j] \notin {KeptInputs(q, currentTick)[m] :
                                        m \in 1..Len(KeptInputs(q, currentTick))}}}

\* engine.update(1): returns at once when the game is over, else this.tick++
EngineTickAfterUpdate == IF tmEngineOver THEN tmEngineTick ELSE tmEngineTick + 1

\* one firing of a tick-loop interval
TickLoop(over) ==
  /\ impl \in TmImpls
  /\ tmIntervals > 0
  /\ tmStatus = "running"
  /\ tickCount < MaxTmTick
  /\ tmEngineTick < MaxTmEngineTick
  /\ tmEngineOver => over
  /\ tickCount' = tickCount + 1
  /\ tmEngineTick' = EngineTickAfterUpdate
  /\ snapshots' = snapshots
  /\ applied' = applied \o AppliedBy(tmPlayers, tickCount + 1)
  /\ discarded' = discarded \cup
       UNION {Lost(tmPlayers[k].pendingInputs, tickCount + 1) : k \in 1..Len(tmPlayers)}
  /\ tmPlayers' = [k \in 1..Len(tmPlayers) |->
                     [tmPlayers[k] EXCEPT !.pendingInputs = KeptInputs(@, tickCount + 1)]]
  /\ tmEngineOver' = over
  /\ IF over
     THEN /\ tmStatus' = "stopped"
          /\ tmIntervals' = IntervalsAfterStop
          /\ tmHandle' = FALSE
          /\ lastTick' = lastTick
     ELSE /\ lastTick' = tickCount + 1
          /\ UNCHANGED <<tmStatus, tmIntervals, tmHandle>>
  /\ UNCHANGED <<inputCounter, resumedAt, rateVars, lobbyVars, wsVars, engVars, roomVars>>

\* the scheduler's own counter in the place of the engine's tick (restarted at 0
\* by every startTickManager)
SnapshotTick_TickCount == tickCount

\* createSnapshot(): the snapshot carries the engine's tick
SnapshotTick == tmEngineTick

\* one firing of a snapshot-loop interval (start and stop create and clear the
\* two intervals together, so tmIntervals counts the pairs)
SnapshotLoop ==
  /\ impl = "sched"
  /\ tmIntervals > 0
  /\ tmStatus = "running"
  /\ Len(snapshots) < MaxSnapshots
  /\ snapshots' = Append(snapshots, SnapshotTick)
  /\ UNCHANGED <<tmEngineTick, resumedAt, tickVars, rateVars, lobbyVars, wsVars, engVars, roomVars>>

\* ------------------------------------------------------------------------
\* Game engine (room-manager.ts, class GameEngine)
\* ------------------------------------------------------------------------
\* Representation.  Units and buildings are kept in the insertion order of
\* their Maps and are identified by their index in it (the engine never removes one).
\* Gold is kept in quarters (the AI income is 0.25, 0.5 or 0.75 gold per tick)
\* and hp in tenths (a placed building starts at stats.hp * 0.1).  Positions
\* are whole pixels: the commands offered below move units by whole pixels
\* only.  Archers and catapults are outside the command inputs; towers are
\* built in the tower specification only, so the projectile list stays empty
\* in the others.
GoldUnit == 4
HpUnit == 10

\* program constants
TILE_SIZE == 40
VISION_RANGE == 200
MAP_TILES_X == 60
MAP_TILES_Y == 60

\* Scaled quantities (bounds of the model; the source's value in brackets)
BaseHp == 1            \* BUILDING_STATS.base.hp [800]
WorkerBuildTime == 1   \* UNIT_STATS.worker.buildTime [480 ticks]
SoldierBuildTime == 3  \* UNIT_STATS.soldier.buildTime [720 ticks]
HealerBuildTime == 3   \* UNIT_STATS.healer.buildTime [660 ticks]
AttackCooldown == 1    \* unit.attackCooldown [60 ticks]
AiPeriod == 1          \* updateAI runs when tick % 60 = 0 [60 ticks]

\* Bounds of a behaviour
MaxTicks == 5          \* engine ticks of a match without the AI seat
MaxAiTicks == 22       \* engine ticks of a match with the AI seat
MaxActions == 3        \* accepted commands of a match without the AI seat
MaxAiActions == 1      \* accepted commands of a match with the AI seat
MaxCommandTick == 3    \* commands arrive while engine.tick is at most this
MaxAiCommandTick == 0  \* the same, in a match with the AI seat

UNIT_STATS ==
  [ worker  |-> [hp |-> 50, damage |-> 3, range |-> 5, speed10 |-> 20,
                 gold |-> 50, wood |-> 0, supply |-> 1, buildTime |-> WorkerBuildTime],
    soldier |-> [hp |-> 80, damage |-> 10, range |-> 10, speed10 |-> 18,
                 gold |-> 80, wood |-> 20, supply |-> 1, buildTime |-> SoldierBuildTime],
    healer  |-> [hp |-> 60, damage |-> -8, range |-> 100, speed10 |-> 18,
                 gold |-> 80, wood |-> 30, supply |-> 1, buildTime |-> HealerBuildTime] ]

BUILDING_STATS ==
  [ base     |-> [hp |-> BaseHp, size |-> 96, gold |-> 0, wood |-> 0, supply |-> 10],
    barracks |-> [hp |-> 400, size |-> 80, gold |-> 120, wood |-> 60, supply |-> 0],
    farm     |-> [hp |-> 200, size |-> 80, gold |-> 60, wood |-> 80, supply |-> 8],
    tower    |-> [hp |-> 300, size |-> 48, gold |-> 100, wood |-> 50, supply |-> 0,
                  attackDamage |-> 20, attackRange |-> 150] ]

\* null values of the engine's nullable fields
NoPosition == [x |-> -1, y |-> -1]
NoTarget == [kind |-> "none", n |-> 0]
NoReason == [name |-> NULL, suffix |-> NULL]

UnitRef(n) == [kind |-> "unit", n |-> n]
BuildingRef(n) == [kind |-> "building", n |-> n]
ResourceRef(n) == [kind |-> "resource", n |-> n]

\* new GameEngine(mapSeed, difficulty)
NewEngine(difficulty) ==
  [ tick |-> 0, players |-> <<>>, units |-> <<>>, buildings |-> <<>>,
    discoveredTiles |-> EmptyMap, gameOver |-> FALSE, winner |-> NULL,
    winnerReason |-> NoReason, difficulty |-> difficulty,
    aiEnabled |-> FALSE, aiPlayerId |-> NULL, projectiles |-> <<>>,
    resources |-> EmptyMap ]

HasPlayer(e, id) == id \in SeqIds(e.players)

PlayerIndex(e, id) == SeqFind(e.players, id)

\* index of the first building that is a base of ownerId, 0 when there is none
FirstBase(e, ownerId) ==
  LET bases == {i \in 1..Len(e.buildings) :
                  e.buildings[i].ownerId = ownerId /\ e.buildings[i].type = "base"}
  IN IF bases = {} THEN 0 ELSE CHOOSE i \in bases : \A j \in bases : i <= j

AddPlayer(e, id, name, team) ==
  [e EXCEPT !.players = Append(@, [id |-> id, name |-> name, team |-> team,
                                   gold |-> 200 * GoldUnit, wood |-> 100,
                                   supply |-> 5, maxSupply |-> 10,
                                   upgrades |-> [attack |-> 0, defense |-> 0, range |-> 0]]),
            !.discoveredTiles = MapPut(@, id, {})]

\* tile coordinates are given in tenths of a tile (initializeGame passes 7.2 and 52.8)
CreateBuildingAtPosition(e, type, ownerId, tileX10, tileY10) ==
  LET stats == BUILDING_STATS[type]
      b == [ownerId |-> ownerId, type |-> type,
            x |-> (tileX10 * TILE_SIZE) \div 10 + TILE_SIZE \div 2,
            y |-> (tileY10 * TILE_SIZE) \div 10 + TILE_SIZE \div 2,
            hp |-> stats.hp * HpUnit, size |-> stats.size,
            progress |-> IF type = "base" THEN 100 ELSE 10,
            productionQueue |-> <<>>]
      built == [e EXCEPT !.buildings = Append(@, b)]
  IN IF stats.supply > 0 /\ HasPlayer(e, ownerId)
     THEN [built EXCEPT !.players[PlayerIndex(e, ownerId)].maxSupply = @ + stats.supply]
     ELSE built

AddAIPlayer(e, id) ==
  LET ai == [id |-> id, name |-> "Enemy AI", team |-> "guest",
             gold |-> 300 * GoldUnit, wood |-> 150, supply |-> 4, maxSupply |-> 10,
             upgrades |-> [attack |-> 0, defense |-> 0, range |-> 0]]
      e1 == [e EXCEPT !.aiEnabled = TRUE, !.aiPlayerId = id,
                      !.players = Append(@, ai),
                      !.discoveredTiles = MapPut(@, id, {})]
      e2 == CreateBuildingAtPosition(e1, "base", id, 880, 880)
  IN CreateBuildingAtPosition(e2, "barracks", id, 850, 850)

\* jitter is the pair <<(Math.random() - 0.5) * 60, (Math.random() - 0.5) * 60>>
SpawnUnit(e, type, ownerId, jitter) ==
  LET stats == UNIT_STATS[type]
      base == FirstBase(e, ownerId)
      unit == [ownerId |-> ownerId, type |-> type,
               x |-> IF base # 0 THEN e.buildings[base].x + jitter[1] ELSE 100,
               y |-> IF base # 0 THEN e.buildings[base].y + jitter[2] ELSE 100,
               hp |-> stats.hp * HpUnit, state |-> "idle",
               targetId |-> NoTarget, targetPosition |-> NoPosition,
               attackCooldownRemaining |-> 0]
  IN [e EXCEPT !.units = Append(@, unit)]

HostPlayerIndex(e) ==
  LET hosts == {i \in 1..Len(e.players) : e.players[i].team = "host"}
  IN IF hosts = {} THEN 0 ELSE CHOOSE i \in hosts : \A j \in hosts : i <= j

RECURSIVE SpawnWorkers(_, _, _)
SpawnWorkers(e, ownerId, jitters) ==
  IF jitters = <<>> THEN e
  ELSE SpawnWorkers(SpawnUnit(e, "worker", ownerId, Head(jitters)), ownerId, Tail(jitters))

\* hostJitters: the random draws of the host's three workers; aiJitters: of the AI's two
InitializeGame(e, hostJitters, aiJitters) ==
  LET h == HostPlayerIndex(e)
      hostId == IF h # 0 THEN e.players[h].id ELSE NULL
      ai == e.aiEnabled /\ e.aiPlayerId # NULL
      e1 == IF h # 0 THEN CreateBuildingAtPosition(e, "base", hostId, 72, 72) ELSE e
      e2 == IF ai THEN CreateBuildingAtPosition(e1, "base", e.aiPlayerId, 528, 528) ELSE e1
      e3 == IF h # 0 THEN SpawnWorkers(e2, hostId, hostJitters) ELSE e2
  IN IF ai THEN SpawnWorkers(e3, e.aiPlayerId, aiJitters) ELSE e3

\* ---- unit updates -------------------------------------------------------
Sign(d) == IF d > 0 THEN 1 ELSE IF d < 0 THEN -1 ELSE 0

ISqrt(n) == CHOOSE r \in 0..n : r * r <= n /\ (r + 1) * (r + 1) > n

\* (d / dist) * speed for the component d of the vector <<d, other>>.  Exact
\* along a row or column (every move the command inputs offer); truncated
\* to whole pixels in other directions.
MoveStep(d, other, speed10) ==
  IF other = 0 THEN Sign(d) * (speed10 \div 10)
  ELSE Sign(d) * ((Sign(d) * d * speed10) \div (10 * ISqrt(d * d + other * other)))

Dist2(a, b) == (a.x - b.x) * (a.x - b.x) + (a.y - b.y) * (a.y - b.y)

\* index of the nearest unit of another owner closer than 400, 0 when none
FindNearestEnemy(e, i) ==
  LET near == {j \in 1..Len(e.units) :
                 /\ e.units[j].ownerId # e.units[i].ownerId
                 /\ Dist2(e.units[j], e.units[i]) < 400 * 400}
  IN IF near = {} THEN 0
     ELSE CHOOSE j \in near :
            \A k \in near :
               \/ Dist2(e.units[j], e.units[i]) < Dist2(e.units[k], e.units[i])
               \/ Dist2(e.units[j], e.units[i]) = Dist2(e.units[k], e.units[i]) /\ j <= k

\* index of the first unit of another owner within the unit's range, 0 when none
FindNearestEnemyInRange(e, i) ==
  LET range == UNIT_STATS[e.units[i].type].range
      near == {j \in 1..Len(e.units) :
                 /\ e.units[j].ownerId # e.units[i].ownerId
                 /\ Dist2(e.units[j], e.units[i]) <= range * range}
  IN IF near = {} THEN 0 ELSE CHOOSE j \in near : \A k \in near : j <= k

UpdateUnitMovement(e, i) ==
  LET unit == e.units[i]
      target == IF unit.targetPosition # NoPosition THEN unit.targetPosition
                ELSE IF unit.targetId.kind = "unit" /\ unit.targetId.n \in 1..Len(e.units)
                     THEN [x |-> e.units[unit.targetId.n].x, y |-> e.units[unit.targetId.n].y]
                     ELSE NoPosition   \* getUnitPosition finds no unit of that id
      dx == target.x - unit.x
      dy == target.y - unit.y
      speed10 == UNIT_STATS[unit.type].speed10
      moved == [e EXCEPT !.units[i].x = @ + MoveStep(dx, dy, speed10),
                         !.units[i].y = @ + MoveStep(dy, dx, speed10)]
  IN IF target = NoPosition THEN [e EXCEPT !.units[i].state = "idle"]
     ELSE IF dx * dx + dy * dy < 5 * 5
          THEN IF unit.state = "attackMove" /\ FindNearestEnemy(e, i) # 0
               THEN [e EXCEPT !.units[i].state = "attacking",
                              !.units[i].targetId = UnitRef(FindNearestEnemy(e, i)),
                              !.units[i].targetPosition = NoPosition]
               ELSE [e EXCEPT !.units[i].state = "idle",
                              !.units[i].targetPosition = NoPosition]
          ELSE IF unit.state = "attackMove" /\ FindNearestEnemyInRange(moved, i) # 0
               THEN [moved EXCEPT !.units[i].state = "attacking",
                                  !.units[i].targetId = UnitRef(FindNearestEnemyInRange(moved, i))]
               ELSE moved

TargetExists(e, ref) ==
  \/ ref.kind = "unit" /\ ref.n \in 1..Len(e.units)
  \/ ref.kind = "building" /\ ref.n \in 1..Len(e.buildings)

TargetOf(e, ref) == IF ref.kind = "unit" THEN e.units[ref.n] ELSE e.buildings[ref.n]

CalculateDamage(e, attacker, target) ==
  LET stats == UNIT_STATS[attacker.type]
      attack == IF HasPlayer(e, attacker.ownerId)
                THEN e.players[PlayerIndex(e, attacker.ownerId)].upgrades.attack ELSE 0
      defense == IF HasPlayer(e, target.ownerId)
                 THEN e.players[PlayerIndex(e, target.ownerId)].upgrades.defense ELSE 0
      tower == IF attacker.type = "worker" /\ target.type = "tower" THEN attack * 3 ELSE 0
      damage == stats.damage + attack * 2 + tower - defense * 2
  IN IF damage > 1 THEN damage ELSE 1

\* UNIT_STATS.archer.damage
ArcherDamage == 8

\* the variants that deal single-target damage
DamageTypes == {"worker", "soldier", "archer"}

BaseDamageOf(type) == IF type = "archer" THEN ArcherDamage ELSE UNIT_STATS[type].damage

Max(a, b) == IF a >= b THEN a ELSE b

\* spawnUnit: unit.attackDamage, with the owner's attack level at the spawn
\* added when the owner has a base
SpawnAttackDamage(type, attackAtSpawn, hasBase) ==
  BaseDamageOf(type) + (IF hasBase THEN attackAtSpawn * 2 ELSE 0)

\* createProjectile: damage: source.attackDamage || 10
ProjectileDamage(attackDamage) == IF attackDamage = 0 THEN 10 ELSE attackDamage

\* calculateDamageFromProjectile(projectile, target)
CalculateDamageFromProjectile(e, damage, ownerId, target) ==
  LET attack == IF HasPlayer(e, ownerId)
                THEN e.players[PlayerIndex(e, ownerId)].upgrades.attack ELSE 0
      defense == IF HasPlayer(e, target.ownerId)
                 THEN e.players[PlayerIndex(e, target.ownerId)].upgrades.defense ELSE 0
  IN Max(1, damage + attack * 2 - defense * 2)

\* createProjectile(source, target) for a source that is no catapult and no
\* healer: an arrow.  `tower` is the index of the building that fired (0 for a
\* unit's arrow); the engine's Projectile does not carry it, the properties
\* of the towers read it.
CreateProjectile(e, x, y, attackDamage, ownerId, ref, tower) ==
  [e EXCEPT !.projectiles =
     Append(@, [x |-> x, y |-> y, targetId |-> ref, speed |-> 8,
                damage |-> ProjectileDamage(attackDamage),
                ownerId |-> ownerId, createdAt |-> e.tick, tower |-> tower])]

UpdateUnitAttack(e, i) ==
  LET unit == e.units[i]
      ref == unit.targetId
      target == TargetOf(e, ref)
      stats == UNIT_STATS[unit.type]
      dx == target.x - unit.x
      dy == target.y - unit.y
      damage == CalculateDamage(e, unit, target) * HpUnit
      hit == IF ref.kind = "unit" THEN [e EXCEPT !.units[ref.n].hp = @ - damage]
             ELSE [e EXCEPT !.buildings[ref.n].hp = @ - damage]
      \* unit.attackDamage is stats.damage for the units of the command inputs,
      \* whose owners have no attack upgrade when they spawn
      shot == CreateProjectile(e, unit.x, unit.y, stats.damage, unit.ownerId, ref, 0)
  IN IF ref = NoTarget THEN [e EXCEPT !.units[i].state = "idle"]
     ELSE IF ~TargetExists(e, ref) \/ target.ownerId = unit.ownerId
          THEN [e EXCEPT !.units[i].state = "idle", !.units[i].targetId = NoTarget]
     ELSE IF dx * dx + dy * dy > stats.range * stats.range
          THEN [e EXCEPT !.units[i].x = @ + MoveStep(dx, dy, stats.speed10),
                         !.units[i].y = @ + MoveStep(dy, dx, stats.speed10)]
     ELSE IF unit.attackCooldownRemaining <= 0
          THEN IF unit.type \in {"archer", "catapult"} \/ target.type = "tower"
               THEN [shot EXCEPT !.units[i].attackCooldownRemaining = AttackCooldown]
               ELSE [hit EXCEPT !.units[i].attackCooldownRemaining = AttackCooldown]
          ELSE e

\* one iteration of updateUnits' loop.  The states gathering, returning,
\* building and healing are never entered: handleGather finds no resource
\* (the engine's resources map is never filled) and no code assigns the others.
UpdateUnit(e, i) ==
  LET cooled == IF e.units[i].attackCooldownRemaining > 0
                THEN [e EXCEPT !.units[i].attackCooldownRemaining = @ - 1] ELSE e
  IN CASE e.units[i].state \in {"moving", "attackMove"} -> UpdateUnitMovement(cooled, i)
       [] e.units[i].state = "attacking" -> UpdateUnitAttack(cooled, i)
       [] OTHER -> cooled

RECURSIVE UpdateUnits(_, _)
UpdateUnits(e, i) ==
  IF i > Len(e.units) THEN e ELSE UpdateUnits(UpdateUnit(e, i), i + 1)

\* ---- buildings ------------------------------------------------------------
\* the buildings whose head queue item completes in the coming tick
Spawning(e) ==
  {i \in 1..Len(e.buildings) :
     /\ e.buildings[i].productionQueue # <<>>
     /\ Head(e.buildings[i].productionQueue).progress + 1
          >= UNIT_STATS[Head(e.buildings[i].productionQueue).type].buildTime}

\* updateBuildings with the last item of the queue advanced and completed
\* in the place of the first
UpdateProductionQueue_LastItem(e, i, jitter) ==
  LET queue == e.buildings[i].productionQueue
      n == Len(queue)
      item == queue[n]
  IN IF queue = <<>> THEN e
     ELSE IF item.progress + 1 >= UNIT_STATS[item.type].buildTime
          THEN [SpawnUnit(e, item.type, e.buildings[i].ownerId, jitter[i])
                  EXCEPT !.buildings[i].productionQueue = SubSeq(queue, 1, n - 1)]
          ELSE [e EXCEPT !.buildings[i].productionQueue[n].progress = @ + 1]

\* updateBuildings' loop body, "Update production queue"; jitter[i] is the
\* draw of building i's spawn
UpdateProductionQueue(e, i, jitter) ==
  LET queue == e.buildings[i].productionQueue
      item == Head(queue)
  IN IF queue = <<>> THEN e
     ELSE IF item.progress + 1 >= UNIT_STATS[item.type].buildTime
          THEN [SpawnUnit(e, item.type, e.buildings[i].ownerId, jitter[i])
                  EXCEPT !.buildings[i].productionQueue = Tail(queue)]
          ELSE [e EXCEPT !.buildings[i].productionQueue[1].progress = @ + 1]

\* index of the unit of another owner nearest to building i and closer than
\* the tower's attackRange (the first of them in Map order), 0 when none
NearestEnemyOfTower(e, i) ==
  LET range == BUILDING_STATS.tower.attackRange
      near == {j \in 1..Len(e.units) :
                 /\ e.units[j].ownerId # e.buildings[i].ownerId
                 /\ Dist2(e.units[j], e.buildings[i]) < range * range}
  IN IF near = {} THEN 0
     ELSE CHOOSE j \in near :
            \A k \in near :
               \/ Dist2(e.units[j], e.buildings[i]) < Dist2(e.units[k], e.buildings[i])
               \/ Dist2(e.units[j], e.buildings[i]) = Dist2(e.units[k], e.buildings[i]) /\ j <= k

\* updateTowerAttack(building)
UpdateTowerAttack(e, i) ==
  IF NearestEnemyOfTower(e, i) = 0 THEN e
  ELSE CreateProjectile(e, e.buildings[i].x, e.buildings[i].y,
                        BUILDING_STATS.tower.attackDamage, e.buildings[i].ownerId,
                        UnitRef(NearestEnemyOfTower(e, i)), i)

\* one iteration of updateBuildings' loop
UpdateBuilding(e, i, jitter) ==
  LET produced == UpdateProductionQueue(e, i, jitter)
  IN IF e.buildings[i].type = "tower" /\ e.buildings[i].hp > 0
     THEN UpdateTowerAttack(produced, i) ELSE produced

RECURSIVE UpdateBuildings(_, _, _)
UpdateBuildings(e, i, jitter) ==
  IF i > Len(e.buildings) THEN e
  ELSE UpdateBuildings(UpdateBuilding(e, i, jitter), i + 1, jitter)

\* ---- projectiles ------------------------------------------------------------
\* updateProjectiles for the arrows: kept collects the projectiles that stay
RECURSIVE UpdateProjectilesFrom(_, _, _)
UpdateProjectilesFrom(e, k, kept) ==
  IF k > Len(e.projectiles) THEN [e EXCEPT !.projectiles = kept]
  ELSE LET proj == e.projectiles[k]
           ref == proj.targetId
           target == TargetOf(e, ref)
           dx == target.x - proj.x
           dy == target.y - proj.y
           damage == CalculateDamageFromProjectile(e, proj.damage, proj.ownerId, target)
                       * HpUnit
           hit == IF ref.kind = "unit" THEN [e EXCEPT !.units[ref.n].hp = @ - damage]
                  ELSE [e EXCEPT !.buildings[ref.n].hp = @ - damage]
           moved == [proj EXCEPT !.x = @ + MoveStep(dx, dy, proj.speed * 10),
                                 !.y = @ + MoveStep(dy, dx, proj.speed * 10)]
       IN IF ~TargetExists(e, ref) THEN UpdateProjectilesFrom(e, k + 1, kept)
          ELSE IF dx * dx + dy * dy < 10 * 10 THEN UpdateProjectilesFrom(hit, k + 1, kept)
          ELSE UpdateProjectilesFrom(e, k + 1, Append(kept, moved))

UpdateProjectiles(e) == UpdateProjectilesFrom(e, 1, <<>>)

\* ---- economy ----------------------------------------------------------------
\* 0.5 * incomeMultiplier, in quarters of gold
AiIncome(difficulty) ==
  IF difficulty = "easy" THEN 1 ELSE IF difficulty = "hard" THEN 3 ELSE 2

UpdateEconomy(e) ==
  IF e.aiEnabled /\ e.aiPlayerId # NULL /\ HasPlayer(e, e.aiPlayerId)
  THEN [e EXCEPT !.players[PlayerIndex(e, e.aiPlayerId)].gold = @ + AiIncome(e.difficulty)]
  ELSE e

\* ---- fog of war -------------------------------------------------------------
IsTileVisible(observerX, observerY, tileX, tileY) ==
  LET dx == tileX * TILE_SIZE + TILE_SIZE \div 2 - observerX
      dy == tileY * TILE_SIZE + TILE_SIZE \div 2 - observerY
  IN dx * dx + dy * dy <= VISION_RANGE * VISION_RANGE

\* the offsets <<dx, dy>> of updateFogOfWar's two loops that pass its range test
\* (Math.sqrt(dx * dx + dy * dy) * tileSize <= VISION_RANGE)
VisionOffsets ==
  LET tileRadius == (VISION_RANGE + TILE_SIZE - 1) \div TILE_SIZE
  IN {d \in (-tileRadius..tileRadius) \X (-tileRadius..tileRadius) :
        (d[1] * d[1] + d[2] * d[2]) * TILE_SIZE * TILE_SIZE <= VISION_RANGE * VISION_RANGE}

\* the tiles one entity at <<x, y>> contributes
TilesSeenFrom(x, y) ==
  LET tileX == x \div TILE_SIZE
      tileY == y \div TILE_SIZE
  IN {<<tileX + d[1], tileY + d[2]>> :
        d \in {o \in VisionOffsets :
                 /\ tileX + o[1] >= 0 /\ tileX + o[1] < MAP_TILES_X
                 /\ tileY + o[2] >= 0 /\ tileY + o[2] < MAP_TILES_Y
                 /\ IsTileVisible(x, y, tileX + o[1], tileY + o[2])}}

EntityPositions(e, playerId) ==
  {<<e.units[i].x, e.units[i].y>> : i \in {j \in 1..Len(e.units) : e.units[j].ownerId = playerId}}
  \cup {<<e.buildings[i].x, e.buildings[i].y>> :
          i \in {j \in 1..Len(e.buildings) : e.buildings[j].ownerId = playerId}}

UpdateFogOfWar(e) ==
  [e EXCEPT !.discoveredTiles =
     [id \in DOMAIN e.discoveredTiles |->
        IF HasPlayer(e, id)
        THEN UNION {TilesSeenFrom(pos[1], pos[2]) : pos \in EntityPositions(e, id)}
        ELSE e.discoveredTiles[id]]]

\* ---- win condition ------------------------------------------------------------
HasBase(e, playerId) == FirstBase(e, playerId) # 0

\* the filter of the enemy ids inverted (id === playerId): the eliminated player's
\* own base is looked for, and none is found
EnemyBaseOwner_SamePlayer(e, playerId) ==
  LET enemies == {i \in 1..Len(e.players) :
                    e.players[i].id = playerId /\ HasBase(e, e.players[i].id)}
  IN IF enemies = {} THEN NULL
     ELSE e.players[CHOOSE i \in enemies : \A j \in enemies : i <= j].id

\* enemyBase?.ownerId || null: the first other player, in Map order, that owns a base
EnemyBaseOwner(e, playerId) ==
  LET enemies == {i \in 1..Len(e.players) :
                    e.players[i].id # playerId /\ HasBase(e, e.players[i].id)}
  IN IF enemies = {} THEN NULL
     ELSE e.players[CHOOSE i \in enemies : \A j \in enemies : i <= j].id

CheckWinCondition(e) ==
  LET losers == {i \in 1..Len(e.players) : ~HasBase(e, e.players[i].id)}
      first == CHOOSE i \in losers : \A j \in losers : i <= j
  IN IF e.gameOver \/ losers = {} THEN e
     ELSE [e EXCEPT !.gameOver = TRUE,
                    !.winner = EnemyBaseOwner(e, e.players[first].id),
                    !.winnerReason = [name |-> e.players[first].name, suffix |-> "eliminated"]]

\* ---- win condition manager (checkWinConditions) ---------------------------------
NoResult == [gameOver |-> FALSE, winner |-> NULL, reason |-> NoReason, eliminatedPlayers |-> <<>>]

\* the ids of a sequence of players whose index is in the set, in order
PlayersIn(players, indexes) ==
  LET kept == SelectSeq([i \in 1..Len(players) |-> [i |-> i, id |-> players[i].id]],
                        LAMBDA p : p.i \in indexes)
  IN [k \in 1..Len(kept) |-> kept[k].id]

\* checkWinConditions(gameState): the players in Map order
CheckWinConditions(gs) ==
  LET players == gs.players
      all == 1..Len(players)
      hasBase(i) == HasBase(gs, players[i].id)
      eliminated == {i \in all : ~hasBase(i)}
      remaining == all \ eliminated
      units(i) == {u \in 1..Len(gs.units) : gs.units[u].ownerId = players[i].id}
      buildings(i) == {b \in 1..Len(gs.buildings) : gs.buildings[b].ownerId = players[i].id}
      wins(i, suffix, lost) ==
        [gameOver |-> TRUE, winner |-> players[i].id,
         reason |-> [name |-> players[i].name, suffix |-> suffix],
         eliminatedPlayers |-> lost]
  IN IF eliminated # {} /\ Cardinality(remaining) = 1
     THEN wins(CHOOSE i \in remaining : TRUE, "wins by elimination!",
               PlayersIn(players, eliminated))
     ELSE IF eliminated # {} /\ Len(players) = 2 /\ ~hasBase(1) /\ hasBase(2)
     THEN wins(2, "wins! Enemy base destroyed!", <<players[1].id>>)
     ELSE IF eliminated # {} /\ Len(players) = 2 /\ ~hasBase(2) /\ hasBase(1)
     THEN wins(1, "wins! Enemy base destroyed!", <<players[2].id>>)
     ELSE IF Len(players) = 2 /\ units(1) = {} /\ buildings(1) = {}
     THEN wins(2, "wins! Enemy army destroyed!", <<players[1].id>>)
     ELSE IF Len(players) = 2 /\ units(2) = {} /\ buildings(2) = {}
     THEN wins(1, "wins! Enemy army destroyed!", <<players[2].id>>)
     ELSE NoResult

\* ---- AI -------------------------------------------------------------------------
QueueUnitProduction(e, buildingId, unitType) ==
  IF buildingId \in 1..Len(e.buildings)
  THEN [e EXCEPT !.buildings[buildingId].productionQueue =
                    Append(@, [type |-> unitType, progress |-> 0])]
  ELSE e

FirstBuildingOf(e, ownerId, type) ==
  LET own == {i \in 1..Len(e.buildings) :
                e.buildings[i].ownerId = ownerId /\ e.buildings[i].type = type}
  IN IF own = {} THEN 0 ELSE CHOOSE i \in own : \A j \in own : i <= j

\* roll is Math.random() in tenths
BarracksRoll(roll) ==
  IF roll < 4 THEN "soldier" ELSE IF roll < 7 THEN "archer" ELSE "healer"

UpdateAI(e, roll) ==
  LET id == e.aiPlayerId
      aiPlayer == e.players[PlayerIndex(e, id)]
      base == FirstBuildingOf(e, id, "base")
      barracks == FirstBuildingOf(e, id, "barracks")
      soldiers == {i \in 1..Len(e.units) :
                     e.units[i].ownerId = id /\ e.units[i].type = "soldier"}
      e1 == IF /\ aiPlayer.gold >= 50 * GoldUnit
               /\ aiPlayer.supply < aiPlayer.maxSupply
               /\ base # 0
               /\ e.buildings[base].productionQueue = <<>>
            THEN QueueUnitProduction(e, base, "worker") ELSE e
      e2 == IF /\ aiPlayer.gold >= 60 * GoldUnit
               /\ barracks # 0
               /\ e.buildings[barracks].productionQueue = <<>>
            THEN QueueUnitProduction(e1, barracks, BarracksRoll(roll)) ELSE e1
      host == HostPlayerIndex(e)
      playerBase == IF host # 0 THEN FirstBase(e, e.players[host].id) ELSE 0
      \* workers: findNearestResource finds nothing (no resources), they stay idle
  IN IF ~e.aiEnabled \/ id = NULL \/ ~HasPlayer(e, id) THEN e
     ELSE IF host # 0 /\ Cardinality(soldiers) >= 3 /\ playerBase # 0
          THEN [e2 EXCEPT !.units =
                  [i \in 1..Len(e2.units) |->
                     IF i \in soldiers /\ e2.units[i].state = "idle"
                     THEN [e2.units[i] EXCEPT !.state = "attackMove",
                                              !.targetId = BuildingRef(playerBase)]
                     ELSE e2.units[i]]]
          ELSE e2

\* ---- update(deltaTime) ----------------------------------------------------------
Update(e, jitter, roll) ==
  LET e1 == [e EXCEPT !.tick = @ + 1]
      e2 == UpdateUnits(e1, 1)
      e3 == UpdateProjectiles(UpdateBuildings(e2, 1, jitter))
      e4 == UpdateEconomy(e3)
      e5 == UpdateFogOfWar(e4)
      e6 == CheckWinCondition(e5)
  IN IF e.gameOver THEN e
     ELSE IF e6.aiEnabled /\ e6.tick % AiPeriod = 0 THEN UpdateAI(e6, roll) ELSE e6

\* ---- processAction --------------------------------------------------------------
NoAction ==
  [type |-> "none", unitId |-> 0, buildingId |-> 0, kind |-> NULL,
   position |-> NoPosition, targetId |-> NoTarget, resourceId |-> 0]

MoveAction(unitId, target) ==
  [NoAction EXCEPT !.type = "move", !.unitId = unitId, !.position = target]
AttackAction(unitId, targetId) ==
  [NoAction EXCEPT !.type = "attack", !.unitId = unitId, !.targetId = targetId]
ProduceAction(buildingId, unitType) ==
  [NoAction EXCEPT !.type = "produce", !.buildingId = buildingId, !.kind = unitType]
BuildAction(buildingType, position) ==
  [NoAction EXCEPT !.type = "build", !.kind = buildingType, !.position = position]
UpgradeAction(buildingId, upgradeType) ==
  [NoAction EXCEPT !.type = "upgrade", !.buildingId = buildingId, !.kind = upgradeType]
GatherAction(unitId, resourceId) ==
  [NoAction EXCEPT !.type = "gather", !.unitId = unitId, !.resourceId = resourceId]
CancelProductionAction(buildingId) ==
  [NoAction EXCEPT !.type = "cancelProduction", !.buildingId = buildingId]

\* the value of lastAction before any call was accepted
NoCall == [playerId |-> NULL, action |-> NoAction]

Rejected(e) == [ok |-> FALSE, engine |-> e]
Accepted(e) == [ok |-> TRUE, engine |-> e]

OwnsUnit(e, playerId, unitId) ==
  unitId \in 1..Len(e.units) /\ e.units[unitId].ownerId = playerId

HandleMove(e, playerId, unitId, target) ==
  IF ~OwnsUnit(e, playerId, unitId) THEN Rejected(e)
  ELSE Accepted([e EXCEPT !.units[unitId].state = "moving",
                          !.units[unitId].targetPosition = target,
                          !.units[unitId].targetId = NoTarget])

HandleAttack(e, playerId, unitId, targetId) ==
  IF ~OwnsUnit(e, playerId, unitId) THEN Rejected(e)
  ELSE IF ~TargetExists(e, targetId) \/ TargetOf(e, targetId).ownerId = playerId
       THEN Rejected(e)
       ELSE Accepted([e EXCEPT !.units[unitId].state = "attacking",
                               !.units[unitId].targetId = targetId,
                               !.units[unitId].targetPosition = NoPosition])

UnitCount(e, playerId) ==
  Cardinality({i \in 1..Len(e.units) : e.units[i].ownerId = playerId})

HandleProduce(e, playerId, buildingId, unitType) ==
  LET stats == UNIT_STATS[unitType]
      p == PlayerIndex(e, playerId)
  IN IF buildingId \notin 1..Len(e.buildings) \/ e.buildings[buildingId].ownerId # playerId
     THEN Rejected(e)
     ELSE IF e.players[p].gold < stats.gold * GoldUnit \/ e.players[p].wood < stats.wood
          THEN Rejected(e)
     ELSE IF UnitCount(e, playerId) + stats.supply > e.players[p].maxSupply
          THEN Rejected(e)
     ELSE Accepted([e EXCEPT !.players[p].gold = @ - stats.gold * GoldUnit,
                             !.players[p].wood = @ - stats.wood,
                             !.buildings[buildingId].productionQueue =
                                Append(@, [type |-> unitType, progress |-> 0])])

CanBuildAt(e, buildingType, position) ==
  LET stats == BUILDING_STATS[buildingType]
      halfSize == stats.size \div 2
  IN /\ ~(position.x - halfSize < 0 \/ position.x + halfSize > MAP_TILES_X * TILE_SIZE)
     /\ ~(position.y - halfSize < 0 \/ position.y + halfSize > MAP_TILES_Y * TILE_SIZE)
     /\ \A i \in 1..Len(e.buildings) :
          ~(4 * Dist2(e.buildings[i], position)
              < (e.buildings[i].size + stats.size + 20) * (e.buildings[i].size + stats.size + 20))

\* handleBuild with the building pushed before the resource check
HandleBuild_PlaceBeforePaying(e, playerId, buildingType, position) ==
  LET stats == BUILDING_STATS[buildingType]
      p == PlayerIndex(e, playerId)
      building == [ownerId |-> playerId, type |-> buildingType,
                   x |-> position.x, y |-> position.y,
                   hp |-> (stats.hp * HpUnit) \div 10, size |-> stats.size,
                   progress |-> 10, productionQueue |-> <<>>]
      placed == [e EXCEPT !.buildings = Append(@, building)]
  IN IF ~CanBuildAt(e, buildingType, position) THEN Rejected(e)
     ELSE IF e.players[p].gold < stats.gold * GoldUnit \/ e.players[p].wood < stats.wood
     THEN Rejected(placed)
     ELSE Accepted([placed EXCEPT !.players[p].gold = @ - stats.gold * GoldUnit,
                                  !.players[p].wood = @ - stats.wood])

HandleBuild(e, playerId, buildingType, position) ==
  LET stats == BUILDING_STATS[buildingType]
      p == PlayerIndex(e, playerId)
      building == [ownerId |-> playerId, type |-> buildingType,
                   x |-> position.x, y |-> position.y,
                   hp |-> (stats.hp * HpUnit) \div 10, size |-> stats.size,
                   progress |-> 10, productionQueue |-> <<>>]
  IN IF e.players[p].gold < stats.gold * GoldUnit \/ e.players[p].wood < stats.wood
     THEN Rejected(e)
     ELSE IF ~CanBuildAt(e, buildingType, position) THEN Rejected(e)
     ELSE Accepted([e EXCEPT !.players[p].gold = @ - stats.gold * GoldUnit,
                             !.players[p].wood = @ - stats.wood,
                             !.buildings = Append(@, building)])

\* handleUpgrade with the gold taken before the level is looked at
HandleUpgrade_DebitFirst(e, playerId, buildingId, upgradeType) ==
  IF ~(buildingId \in 1..Len(e.buildings) /\ e.buildings[buildingId].ownerId = playerId)
  THEN Rejected(e)
  ELSE IF ~HasPlayer(e, playerId) THEN Rejected(e)
  ELSE LET p == PlayerIndex(e, playerId)
           paid == [e EXCEPT !.players[p].gold = @ - 100 * GoldUnit]
           maxLevel == IF upgradeType = "range" THEN 2 ELSE 3
       IN IF e.players[p].upgrades[upgradeType] >= maxLevel THEN Rejected(paid)
          ELSE IF e.players[p].gold < 100 * GoldUnit THEN Rejected(e)
          ELSE Accepted([paid EXCEPT !.players[p].upgrades[upgradeType] = @ + 1])

HandleUpgrade(e, playerId, buildingId, upgradeType) ==
  IF ~(buildingId \in 1..Len(e.buildings) /\ e.buildings[buildingId].ownerId = playerId)
  THEN Rejected(e)
  ELSE IF ~HasPlayer(e, playerId) THEN Rejected(e)
  ELSE LET p == PlayerIndex(e, playerId)
           currentLevel == e.players[p].upgrades[upgradeType]
           maxLevel == IF upgradeType = "range" THEN 2 ELSE 3
       IN IF currentLevel >= maxLevel THEN Rejected(e)
          ELSE IF e.players[p].gold < 100 * GoldUnit THEN Rejected(e)
          ELSE Accepted([e EXCEPT !.players[p].gold = @ - 100 * GoldUnit,
                                  !.players[p].upgrades[upgradeType] = @ + 1])

\* [ok |-> what processAction returns, engine |-> the engine afterwards]
\* a resource id is the node's place in map.resources
HandleGather(e, playerId, unitId, resourceId) ==
  IF ~OwnsUnit(e, playerId, unitId) \/ e.units[unitId].type # "worker" THEN Rejected(e)
  ELSE IF resourceId \notin DOMAIN e.resources THEN Rejected(e)
       ELSE Accepted([e EXCEPT !.units[unitId].state = "gathering",
                               !.units[unitId].targetId = ResourceRef(resourceId)])

ProcessAction(e, playerId, action) ==
  IF ~HasPlayer(e, playerId) THEN Rejected(e)
  ELSE CASE action.type = "move" -> HandleMove(e, playerId, action.unitId, action.position)
         [] action.type = "attack" -> HandleAttack(e, playerId, action.unitId, action.targetId)
         [] action.type = "produce" -> HandleProduce(e, playerId, action.buildingId, action.kind)
         [] action.type = "build" -> HandleBuild(e, playerId, action.kind, action.position)
         [] action.type = "upgrade" -> HandleUpgrade(e, playerId, action.buildingId, action.kind)
         [] action.type = "gather" -> HandleGather(e, playerId, action.unitId, action.resourceId)
         [] OTHER -> Rejected(e)   \* cancelProduction: no case of the switch

\* ---- generateMap -----------------------------------------------------------
\* room.config.mapSeed of the room in play (createRoom draws it at random)
MapSeed == 12

\* seededRandom: s = (s * 9301 + 49297) % 233280, the draw is s / 233280
LcgModulus == 233280
LcgStep == <<9301, 49297>>

\* (a * b) % LcgModulus for a, b below LcgModulus, without leaving 32 bits
MulMod(a, b) ==
  ((((a * (b \div 512)) % LcgModulus) * 512) + a * (b % 512)) % LcgModulus

\* maps s -> (f[1] * s + f[2]) % LcgModulus: first f, then g
LcgCompose(f, g) == <<MulMod(g[1], f[1]), (MulMod(g[1], f[2]) + g[2]) % LcgModulus>>

\* twice the steps of f, and one more if odd = 1
LcgTwice[p \in (Nat \X Nat) \X {0, 1}] ==
  IF p[2] = 1 THEN LcgCompose(LcgCompose(p[1], p[1]), LcgStep)
  ELSE LcgCompose(p[1], p[1])

\* n steps of seededRandom as one map
LcgSteps[n \in Nat] ==
  IF n = 0 THEN <<1, 0>> ELSE LcgTwice[<<LcgSteps[n \div 2], n % 2>>]

\* the numerator of the n-th draw of seededRandom(seed)
SeededRandom(seed, n) ==
  (MulMod(LcgSteps[n][1], seed % LcgModulus) + LcgSteps[n][2]) % LcgModulus

\* the spawn areas are grass without a draw
IsSpawnTile(x, y) == (x < 5 /\ y < 5) \/ (x > 54 /\ y > 54)

\* how many draws the terrain loop has made when it has set tile (x, y)
TileDraw(x, y) ==
  (IF y < 5 THEN 55 * y + x - 4
   ELSE IF y <= 54 THEN 275 + 60 * (y - 5) + x + 1
   ELSE 3275 + 55 * (y - 55) + x + 1)

\* the draws of the whole terrain loop
TerrainDraws == 3550

\* the terrain loop's tile type
TerrainTile(seed, x, y) ==
  IF IsSpawnTile(x, y) THEN "grass"
  ELSE LET r == SeededRandom(seed, TileDraw(x, y))
       IN IF 100 * r < 50 * LcgModulus THEN "grass"
          ELSE IF 100 * r < 70 * LcgModulus THEN "forest"
          ELSE IF 100 * r < 85 * LcgModulus THEN "dirt"
          ELSE IF 100 * r < 92 * LcgModulus THEN "sand"
          ELSE IF 100 * r < 96 * LcgModulus THEN "gold"
          ELSE "water"

\* one step of seededRandom
LcgNext(s) == (MulMod(LcgStep[1], s) + LcgStep[2]) % LcgModulus

\* Math.floor(random() * k) for the draw with numerator r
RandomBelow(r, k) == (r * k) \div LcgModulus

\* the type of tile (x, y) after the placements listed, terrain before them
PlacedTile(placed, x, y, terrain) ==
  LET at == {i \in 1..Len(placed) : placed[i][1] = x /\ placed[i][2] = y}
  IN IF at = {} THEN terrain
     ELSE placed[CHOOSE i \in at : \A j \in at : j <= i][3]

\* the state of generateMap at the start of its gold-mine loop
GoldLoopStart(seed) ==
  [type |-> "gold", s |-> LcgNext(LcgNext(SeededRandom(seed, TerrainDraws))),
   left |-> 20 + RandomBelow(LcgNext(SeededRandom(seed, TerrainDraws)), 10),
   placed |-> <<>>]

\* numForests, drawn before the gold-mine loop starts
NumForests(seed) == 30 + RandomBelow(LcgNext(LcgNext(SeededRandom(seed, TerrainDraws))), 15)

\* one iteration of the gold-mine or of the forest loop
PlaceResource(seed, st) ==
  LET x == RandomBelow(LcgNext(st.s), MAP_TILES_X - 4) + 2
      y == RandomBelow(LcgNext(LcgNext(st.s)), MAP_TILES_Y - 4) + 2
      tile == PlacedTile(st.placed, x, y, TerrainTile(seed, x, y))
      taken == IF st.type = "gold" THEN tile # "grass"
               ELSE tile # "grass" /\ tile # "gold"
  IN IF taken
     THEN [st EXCEPT !.left = @ - 1, !.s = LcgNext(LcgNext(LcgNext(@))),
                     !.placed = Append(@, <<x, y, st.type>>)]
     ELSE [st EXCEPT !.left = @ - 1, !.s = LcgNext(LcgNext(@))]

\* map.tiles[y][x] of the map generated from seed with the resources listed
TileAt(seed, resources, x, y) == PlacedTile(resources, x, y, TerrainTile(seed, x, y))

\* ---- generateId -------------------------------------------------------------
\* `${Date.now()}-${idCounter++}-${Math.random().toString(36).substring(2, 9)}`:
\* the clock, the counter shared by every engine of the process, the random suffix
GenerateId(clock, idCounter, suffix) == <<clock, idCounter, suffix>>

\* the values Date.now(), idCounter and the random suffix may have at a call
IdClockInputs == {0, 1}
IdCounterInputs == {0, 1}
IdSuffixInputs == {"a", "b"}

\* ------------------------------------------------------------------------
\* room-manager.ts: one room in play (startGame has built its engine).
\* processAction is the path of a client's action: rate limit, validateAction
\* (validator.ts) against the room's PlayerConnection, then the engine.
\* ------------------------------------------------------------------------
\* the clock of a room in play stops here
MaxRoomNow == 2
\* update(1) calls of a room in play
MaxRoomTicks == 2

\* PlayerConnection.resources, written once (createRoom, joinRoom) and never again
ConnectionResources == [gold |-> 200, wood |-> 100, supply |-> 5, maxSupply |-> 10]

\* PlayerConnection.ownedUnitIds / ownedBuildingIds: new Set() in createRoom
\* and joinRoom; no code adds an id to either
OwnedUnitIds(playerId) == {}
OwnedBuildingIds(playerId) == {}

Invalid(reason) == [valid |-> FALSE, reason |-> reason]
Valid == [valid |-> TRUE, reason |-> NULL]

\* the reason checkRateLimit gives when it refuses
CheckRateLimitReason(playerId) ==
  IF Len(RecentFilter(RateEntry(playerId).recentActions, now)) >= MaxActionsPerSecond
  THEN "Rate limit exceeded: too many actions per second"
  ELSE "Rate limit exceeded: too many actions per minute"

\* a missing id (!action.unitId) is the id 0 here
ValidateMovementAction(action, ownedUnitIds) ==
  IF action.unitId = 0 THEN Invalid("Missing unit ID")
  ELSE IF action.unitId \notin ownedUnitIds THEN Invalid("Unit not owned by player")
  ELSE IF \/ action.position.x < 0 \/ action.position.x > MAP_TILES_X * TILE_SIZE
          \/ action.position.y < 0 \/ action.position.y > MAP_TILES_Y * TILE_SIZE
       THEN Invalid("Target position out of bounds")
       ELSE Valid

\* the own-unit test compares the target's owner with the first '-' piece of
\* the unit id, a piece of generateId's timestamp: it never matches a player id
ValidateAttackAction(e, action, ownedUnitIds) ==
  IF action.unitId = 0 THEN Invalid("Missing unit ID")
  ELSE IF action.unitId \notin ownedUnitIds THEN Invalid("Unit not owned by player")
  ELSE IF action.targetId = NoTarget THEN Invalid("Missing target ID")
  ELSE IF ~TargetExists(e, action.targetId) THEN Invalid("Target not found")
  ELSE Valid

ValidateProduceAction(action, ownedBuildingIds, playerResources) ==
  IF action.buildingId = 0 THEN Invalid("Missing building ID")
  ELSE IF action.buildingId \notin ownedBuildingIds THEN Invalid("Building not owned by player")
  ELSE IF action.kind \notin DOMAIN UNIT_STATS THEN Invalid("Invalid unit type")
  ELSE IF \/ playerResources.gold < UNIT_STATS[action.kind].gold
          \/ playerResources.wood < UNIT_STATS[action.kind].wood
       THEN Invalid("Insufficient resources")
  ELSE IF playerResources.supply >= playerResources.maxSupply THEN Invalid("Insufficient supply")
  ELSE Valid

ValidateBuildAction(e, action, playerResources) ==
  IF action.kind \notin DOMAIN BUILDING_STATS THEN Invalid("Invalid building type")
  ELSE LET stats == BUILDING_STATS[action.kind]
           halfSize == stats.size \div 2
       IN IF playerResources.gold < stats.gold \/ playerResources.wood < stats.wood
          THEN Invalid("Insufficient resources")
          ELSE IF \/ action.position.x - halfSize < 0
                  \/ action.position.x + halfSize > MAP_TILES_X * TILE_SIZE
                  \/ action.position.y - halfSize < 0
                  \/ action.position.y + halfSize > MAP_TILES_Y * TILE_SIZE
               THEN Invalid("Build position out of bounds")
          ELSE IF \E i \in 1..Len(e.buildings) :
                    4 * Dist2(e.buildings[i], action.position)
                      < (e.buildings[i].size + stats.size + 20)
                          * (e.buildings[i].size + stats.size + 20)
               THEN Invalid("Cannot build here: too close to another building")
          ELSE Valid

\* the commands of the model carry no queueItemId
ValidateCancelProductionAction(action, ownedBuildingIds) ==
  IF action.buildingId = 0 THEN Invalid("Missing building ID")
  ELSE IF action.buildingId \notin ownedBuildingIds THEN Invalid("Building not owned by player")
  ELSE Invalid("Missing queue item ID")

ValidateAction(e, action, playerResources, ownedUnitIds, ownedBuildingIds) ==
  CASE action.type = "move" -> ValidateMovementAction(action, ownedUnitIds)
    [] action.type = "attack" -> ValidateAttackAction(e, action, ownedUnitIds)
    [] action.type = "produce" -> ValidateProduceAction(action, ownedBuildingIds, playerResources)
    [] action.type = "build" -> ValidateBuildAction(e, action, playerResources)
    [] action.type = "cancelProduction" -> ValidateCancelProductionAction(action, ownedBuildingIds)
    [] OTHER -> Invalid("Unknown action type")

\* the room is deleted when its last player leaves
RoomExists == roomPlayers # <<>>

InRoom(playerId) == \E i \in 1..Len(roomPlayers) : roomPlayers[i] = playerId

\* processAction(roomId, playerId, action):
\* [valid, reason |-> what it returns, engine |-> the engine afterwards,
\*  limited |-> whether checkRateLimit was called]
RmProcessAction(e, playerId, action) ==
  IF ~RoomExists
  THEN [valid |-> FALSE, reason |-> "Room or game not found", engine |-> e, limited |-> FALSE]
  ELSE IF ~InRoom(playerId)
  THEN [valid |-> FALSE, reason |-> "Player not in room", engine |-> e, limited |-> FALSE]
  ELSE IF ~CheckRateLimitResult(playerId)[2]
  THEN [valid |-> FALSE, reason |-> CheckRateLimitReason(playerId), engine |-> e, limited |-> TRUE]
  ELSE LET v == ValidateAction(e, action, ConnectionResources,
                               OwnedUnitIds(playerId), OwnedBuildingIds(playerId))
           r == ProcessAction(e, playerId, action)
       IN IF ~v.valid
          THEN [valid |-> FALSE, reason |-> v.reason, engine |-> e, limited |-> TRUE]
          ELSE [valid |-> r.ok,
                reason |-> IF r.ok THEN NULL ELSE "Failed to process action",
                engine |-> r.engine, limited |-> TRUE]

\* ------------------------------------------------------------------------
\* The lobby specification
\* ------------------------------------------------------------------------
\* Date.now() moves on: a room's age passes the maximum age (one hour).
\* Rooms are created in the order of their ids, so they expire in that order.
Expire(rooms, roomId) ==
  IF /\ roomId \in DOMAIN rooms
     /\ ~rooms[roomId].expired
     /\ \A q \in DOMAIN rooms : q < roomId => rooms[q].expired
  THEN [rooms EXCEPT ![roomId].expired = TRUE]
  ELSE rooms

RoomExpires(roomId) ==
  /\ roomId \in DOMAIN rmRooms \cup DOMAIN mlRooms \cup DOMAIN kvRooms
  /\ rmRooms' = Expire(rmRooms, roomId)
  /\ mlRooms' = Expire(mlRooms, roomId)
  /\ kvRooms' = Expire(kvRooms, roomId)
  /\ UNCHANGED <<rateVars, tickVars, engVars, schedVars, roomVars, impl, kvCalls, wsVars, roomCounter, mlPlayerRooms, kvPlayerKey, kvHostKey>>

\* ------------------------------------------------------------------------
\* Key-value lobby: calls whose store reads and writes interleave. The store
\* is remote and every access to it is awaited, so each action below is the
\* part of an async function from one awaited store access to the next.
\* ------------------------------------------------------------------------
CallIds == {1, 2}

KvOps == {"joinRoom", "leaveRoom", "toggleReady", "startGame"}

\* a call that has not been made. room: the local `room` of joinRoom,
\* toggleReady or startGame; left, leftId: the local `room` and `roomId` of
\* leaveRoom; ok: the call has returned a room (leaveRoom: has written its
\* result); set: the ready value toggleReady wrote
IdleCall ==
  [op |-> "none", roomId |-> 0, playerId |-> NULL, pc |-> "idle",
   room |-> [players |-> <<>>], left |-> [players |-> <<>>], leftId |-> 0,
   ok |-> FALSE, set |-> FALSE]

NoCalls == [c \in CallIds |-> IdleCall]

\* the route handler calls the function
KvInvoke(c, op, roomId, playerId) ==
  /\ impl = "kvrace"
  /\ kvCalls[c].pc = "idle"
  /\ kvCalls' = [kvCalls EXCEPT ![c] =
                   [IdleCall EXCEPT !.op = op, !.roomId = roomId, !.playerId = playerId,
                                    !.pc = IF op = "leaveRoom" THEN "getKey" ELSE "getRoom"]]
  /\ UNCHANGED <<rateVars, tickVars, engVars, schedVars, roomVars, wsVars, impl, roomCounter,
                 rmRooms, mlRooms, mlPlayerRooms, kvRooms, kvPlayerKey, kvHostKey>>

\* the call returns
Returned(call, ok) == [call EXCEPT !.pc = "done", !.ok = ok]

\* leaveRoom has returned: joinRoom goes on to push the player and to write
\* the room, a leaveRoom call is over
AfterLeave(call, wrote) ==
  IF call.op = "joinRoom"
  THEN [call EXCEPT !.room.players = Append(@, NewPlayer(call.playerId, "guest")),
                    !.pc = "setRoom"]
  ELSE Returned(call, wrote)

\* `const room = await getRoom(roomId)` of joinRoom, toggleReady and startGame
\* and the checks that follow it
GotRoom(call) ==
  IF call.roomId \notin DOMAIN kvRooms THEN Returned(call, FALSE)
  ELSE LET room == kvRooms[call.roomId] IN
    CASE call.op = "joinRoom" ->
           IF room.gameStarted \/ Len(room.players) >= MaxPlayers THEN Returned(call, FALSE)
           ELSE IF call.playerId \in SeqIds(room.players)
                THEN Returned([call EXCEPT !.room = room], TRUE)
                ELSE [call EXCEPT !.room = room, !.pc = "getKey"]
      [] call.op = "toggleReady" ->
           IF call.playerId \notin SeqIds(room.players) THEN Returned(call, FALSE)
           ELSE LET i == SeqFind(room.players, call.playerId) IN
                [call EXCEPT !.room = [room EXCEPT !.players[i].ready = ~@],
                             !.set = ~room.players[i].ready,
                             !.pc = "setRoom"]
      [] OTHER ->
           IF room.host # call.playerId \/ ~AllReady(room.players) THEN Returned(call, FALSE)
           ELSE [call EXCEPT !.room = [room EXCEPT !.gameStarted = TRUE], !.pc = "setRoom"]

KvGetRoom(c) ==
  /\ impl = "kvrace"
  /\ kvCalls[c].pc = "getRoom"
  /\ kvCalls' = [kvCalls EXCEPT ![c] = GotRoom(kvCalls[c])]
  /\ UNCHANGED <<rateVars, tickVars, engVars, schedVars, roomVars, wsVars, impl, roomCounter,
                 rmRooms, mlRooms, mlPlayerRooms, kvRooms, kvPlayerKey, kvHostKey>>

\* leaveRoom: `const roomIdKey = await store.get(`player:${playerId}`)`
KvGetKey(c) ==
  /\ impl = "kvrace"
  /\ kvCalls[c].pc = "getKey"
  /\ kvCalls' = [kvCalls EXCEPT ![c] =
                   IF kvCalls[c].playerId \notin DOMAIN kvPlayerKey
                   THEN AfterLeave(kvCalls[c], FALSE)
                   ELSE [kvCalls[c] EXCEPT !.leftId = kvPlayerKey[kvCalls[c].playerId],
                                           !.pc = "getLeftRoom"]]
  /\ UNCHANGED <<rateVars, tickVars, engVars, schedVars, roomVars, wsVars, impl, roomCounter,
                 rmRooms, mlRooms, mlPlayerRooms, kvRooms, kvPlayerKey, kvHostKey>>

\* leaveRoom: `const room = await getRoom(roomId)` and the filter
KvGetLeftRoom(c) ==
  /\ impl = "kvrace"
  /\ kvCalls[c].pc = "getLeftRoom"
  /\ kvCalls' = [kvCalls EXCEPT ![c] =
                   IF kvCalls[c].leftId \notin DOMAIN kvRooms
                   THEN AfterLeave(kvCalls[c], FALSE)
                   ELSE [kvCalls[c] EXCEPT
                           !.left = [kvRooms[kvCalls[c].leftId] EXCEPT
                                       !.players = SeqFilterOut(@, kvCalls[c].playerId)],
                           !.pc = "deleteKey"]]
  /\ UNCHANGED <<rateVars, tickVars, engVars, schedVars, roomVars, wsVars, impl, roomCounter,
                 rmRooms, mlRooms, mlPlayerRooms, kvRooms, kvPlayerKey, kvHostKey>>

\* leaveRoom: `await store.delete(`player:${playerId}`)`
KvDeleteKey(c) ==
  /\ impl = "kvrace"
  /\ kvCalls[c].pc = "deleteKey"
  /\ kvPlayerKey' = MapDelete(kvPlayerKey, kvCalls[c].playerId)
  /\ kvCalls' = [kvCalls EXCEPT ![c].pc = "storeLeftRoom"]
  /\ UNCHANGED <<rateVars, tickVars, engVars, schedVars, roomVars, wsVars, impl, roomCounter,
                 rmRooms, mlRooms, mlPlayerRooms, kvRooms, kvHostKey>>

\* leaveRoom, from the emptiness test to its return: the room is deleted
\* (and the host key with it, the two deletes taken together) or written
\* back, with a new host when the host left
KvStoreLeftRoom(c) ==
  /\ impl = "kvrace"
  /\ kvCalls[c].pc = "storeLeftRoom"
  /\ LET call == kvCalls[c]
         left == call.left
     IN
     /\ kvRooms' =
          IF Len(left.players) = 0 THEN MapDelete(kvRooms, call.leftId)
          ELSE IF left.host = call.playerId
               THEN MapPut(kvRooms, call.leftId,
                      [left EXCEPT !.players = PromoteFirst(@), !.host = left.players[1].id])
               ELSE MapPut(kvRooms, call.leftId, left)
     /\ kvHostKey' = IF Len(left.players) = 0 /\ left.host = call.playerId
                     THEN MapDelete(kvHostKey, call.playerId) ELSE kvHostKey
     /\ kvCalls' = [kvCalls EXCEPT ![c] = AfterLeave(call, TRUE)]
  /\ UNCHANGED <<rateVars, tickVars, engVars, schedVars, roomVars, wsVars, impl, roomCounter,
                 rmRooms, mlRooms, mlPlayerRooms, kvPlayerKey>>

\* `await store.setJSON(roomId, room)` of joinRoom, toggleReady and startGame
KvSetRoom(c) ==
  /\ impl = "kvrace"
  /\ kvCalls[c].pc = "setRoom"
  /\ kvRooms' = MapPut(kvRooms, kvCalls[c].roomId, kvCalls[c].room)
  /\ kvCalls' = [kvCalls EXCEPT ![c] =
                   IF kvCalls[c].op = "joinRoom" THEN [kvCalls[c] EXCEPT !.pc = "setKey"]
                   ELSE Returned(kvCalls[c], TRUE)]
  /\ UNCHANGED <<rateVars, tickVars, engVars, schedVars, roomVars, wsVars, impl, roomCounter,
                 rmRooms, mlRooms, mlPlayerRooms, kvPlayerKey, kvHostKey>>

\* joinRoom: `await store.setJSON(`player:${playerId}`, roomId)`
KvSetKey(c) ==
  /\ impl = "kvrace"
  /\ kvCalls[c].pc = "setKey"
  /\ kvPlayerKey' = MapPut(kvPlayerKey, kvCalls[c].playerId, kvCalls[c].roomId)
  /\ kvCalls' = [kvCalls EXCEPT ![c] = Returned(kvCalls[c], TRUE)]
  /\ UNCHANGED <<rateVars, tickVars, engVars, schedVars, roomVars, wsVars, impl, roomCounter,
                 rmRooms, mlRooms, mlPlayerRooms, kvRooms, kvHostKey>>

\* ------------------------------------------------------------------------
\* part_002 (WebSocket handler)
\* ------------------------------------------------------------------------
WsPlayerIds == {"p1", "p2"}

MaxConnections == 4

NoSend == [playerId |-> NULL, to |-> 0, open |-> {}]

WsStart ==
  /\ connections = EmptyMap
  /\ playerConnections = EmptyMap
  /\ connCounter = 0
  /\ sent = NoSend

\* the connections registered with the handler for the player that are open
OpenConnections(playerId) ==
  {c \in DOMAIN connections :
     connections[c].playerId = playerId /\ connections[c].connected}

\* handleConnection with a fresh connection id
HandleConnection(playerId) ==
  /\ impl = "ws"
  /\ connCounter < MaxConnections
  /\ connCounter' = connCounter + 1
  /\ connections' = MapPut(connections, connCounter + 1,
                      [id |-> connCounter + 1, playerId |-> playerId, connected |-> TRUE])
  /\ playerConnections' = MapPut(playerConnections, playerId, connCounter + 1)
  /\ UNCHANGED <<lobbyVars, rateVars, tickVars, engVars, schedVars, roomVars, sent>>

\* handleDisconnection: the socket closed, or the health check found the
\* connection stale
HandleDisconnection(connectionId) ==
  /\ impl = "ws"
  /\ IF connectionId \in DOMAIN connections
     THEN /\ playerConnections' = MapDelete(playerConnections, connections[connectionId].playerId)
          /\ connections' = MapDelete(connections, connectionId)
     ELSE UNCHANGED <<connections, playerConnections>>
  /\ UNCHANGED <<lobbyVars, rateVars, tickVars, engVars, schedVars, roomVars, connCounter, sent>>

\* sendToPlayer: the connection whose socket.send is called, 0 when the
\* function returns without sending
SendTarget(playerId) ==
  IF playerId \notin DOMAIN playerConnections THEN 0
  ELSE LET connectionId == playerConnections[playerId] IN
       IF connectionId \notin DOMAIN connections \/ ~connections[connectionId].connected
       THEN 0 ELSE connectionId

SendToPlayer(playerId) ==
  /\ impl = "ws"
  /\ sent' = [playerId |-> playerId, to |-> SendTarget(playerId),
              open |-> OpenConnections(playerId)]
  /\ UNCHANGED <<lobbyVars, rateVars, tickVars, engVars, schedVars, roomVars,
                 connections, playerConnections, connCounter>>

RoomIdInputs == 1..MaxRooms

\* the state of each subsystem after module load / construction
LobbyStart ==
  /\ roomCounter = 0
  /\ rmRooms = EmptyMap
  /\ mlRooms = EmptyMap
  /\ mlPlayerRooms = EmptyMap
  /\ kvRooms = EmptyMap
  /\ kvPlayerKey = EmptyMap
  /\ kvHostKey = EmptyMap
  /\ kvCalls = NoCalls

RateStart ==
  /\ now = 0
  /\ playerRateLimits = EmptyMap
  /\ passed = [c \in RateClients |-> <<>>]
  /\ refused = [c \in RateClients |-> -1]

TickStart ==
  /\ tmStatus = "none"
  /\ tmIntervals = 0
  /\ tmHandle = FALSE
  /\ tickCount = 0
  /\ lastTick = 0
  /\ tmPlayers = <<>>
  /\ inputCounter = 0
  /\ tmEngineOver = FALSE
  /\ applied = <<>>
  /\ discarded = {}

SchedStart ==
  /\ tmEngineTick = 0
  /\ snapshots = <<>>
  /\ resumedAt = -1

RoomStart ==
  /\ roomPlayers = <<>>
  /\ roomHostId = NULL
  /\ mapGen = [type |-> "done", s |-> 0, left |-> 0, placed |-> <<>>]

EngineStart ==
  /\ engine = NewEngine("normal")
  /\ actionCount = 0
  /\ lastAction = NoCall

LobbyInit ==
  /\ impl \in {"rm", "ml", "kv"}
  /\ LobbyStart /\ WsStart /\ RateStart /\ TickStart /\ EngineStart /\ SchedStart /\ RoomStart

LobbyNext ==
  \/ \E r \in RoomIdInputs : RoomExpires(r)
  \/ \E p \in PlayerIds : RMCreateRoom(p)
  \/ \E r \in RoomIdInputs, p \in PlayerIds : RMJoinRoom(r, p)
  \/ \E p \in PlayerIds : RMLeaveRoom(p)
  \/ \E r \in RoomIdInputs, p \in PlayerIds, b \in BOOLEAN : RMSetPlayerReady(r, p, b)
  \/ \E r \in RoomIdInputs, p \in PlayerIds : RMStartGame(r, p)
  \/ \E r \in RoomIdInputs : RMEndGame(r)
  \/ RMPeriodicCleanup
  \/ \E p \in PlayerIds : MLCreateRoom(p)
  \/ \E r \in RoomIdInputs, p \in PlayerIds : MLJoinRoom(r, p)
  \/ \E p \in PlayerIds : MLLeaveRoom(p)
  \/ \E r \in RoomIdInputs, p \in PlayerIds : MLToggleReady(r, p)
  \/ \E r \in RoomIdInputs, p \in PlayerIds : MLStartGame(r, p)
  \/ MLCleanupRooms
  \/ \E p \in PlayerIds : KVCreateRoom(p)
  \/ \E r \in RoomIdInputs, p \in PlayerIds : KVJoinRoom(r, p)
  \/ \E p \in PlayerIds : KVLeaveRoom(p)
  \/ \E r \in RoomIdInputs, p \in PlayerIds : KVToggleReady(r, p)
  \/ \E r \in RoomIdInputs, p \in PlayerIds : KVStartGame(r, p)
  \/ KVCleanupRooms

vars == <<lobbyVars, rateVars, tickVars, engVars, schedVars, roomVars, wsVars>>

SpecLobby == LobbyInit /\ [][LobbyNext]_vars

\* ------------------------------------------------------------------------
\* The interleaved-calls specification: room 1 of the key-value lobby as
\* createRoom("p1"), an optional joinRoom(1, "p2") and ready toggles leave
\* it, and two calls about it whose store accesses interleave.
\* ------------------------------------------------------------------------
RaceInit ==
  /\ impl = "kvrace"
  /\ roomCounter = 1
  /\ rmRooms = EmptyMap
  /\ mlRooms = EmptyMap
  /\ mlPlayerRooms = EmptyMap
  /\ \E joined \in BOOLEAN, hostReady \in BOOLEAN, guestReady \in BOOLEAN :
       /\ joined \/ ~guestReady
       /\ kvRooms = MapPut(EmptyMap, 1,
            [players |-> <<[NewPlayer("p1", "host") EXCEPT !.ready = hostReady]>>
                           \o (IF joined
                               THEN <<[NewPlayer("p2", "guest") EXCEPT !.ready = guestReady]>>
                               ELSE <<>>),
             host |-> "p1", gameStarted |-> FALSE, expired |-> FALSE])
       /\ kvPlayerKey = IF joined THEN MapPut(EmptyMap, "p2", 1) ELSE EmptyMap
  /\ kvHostKey = MapPut(EmptyMap, "p1", 1)
  /\ kvCalls = NoCalls
  /\ WsStart /\ RateStart /\ TickStart /\ EngineStart /\ SchedStart /\ RoomStart

RaceNext ==
  \/ \E c \in CallIds, op \in KvOps, p \in PlayerIds : KvInvoke(c, op, 1, p)
  \/ \E c \in CallIds : KvGetRoom(c)
  \/ \E c \in CallIds : KvGetKey(c)
  \/ \E c \in CallIds : KvGetLeftRoom(c)
  \/ \E c \in CallIds : KvDeleteKey(c)
  \/ \E c \in CallIds : KvStoreLeftRoom(c)
  \/ \E c \in CallIds : KvSetRoom(c)
  \/ \E c \in CallIds : KvSetKey(c)

SpecRace == RaceInit /\ [][RaceNext]_vars

\* ------------------------------------------------------------------------
\* The WebSocket-handler specification
\* ------------------------------------------------------------------------
WsInit ==
  /\ impl = "ws"
  /\ LobbyStart /\ WsStart /\ RateStart /\ TickStart /\ EngineStart /\ SchedStart /\ RoomStart

WsNext ==
  \/ \E p \in WsPlayerIds : HandleConnection(p)
  \/ \E c \in 1..MaxConnections : HandleDisconnection(c)
  \/ \E p \in WsPlayerIds : SendToPlayer(p)

SpecWs == WsInit /\ [][WsNext]_vars

\* ------------------------------------------------------------------------
\* The rate-limiter specification
\* ------------------------------------------------------------------------
RateInit ==
  /\ impl = "rate"
  /\ LobbyStart /\ WsStart /\ RateStart /\ TickStart /\ EngineStart /\ SchedStart /\ RoomStart

RateNext ==
  \/ ClockTick
  \/ \E c \in RateClients : CheckRateLimit(c)
  \/ CleanupRateLimits

SpecRate == RateInit /\ [][RateNext]_vars

\* ------------------------------------------------------------------------
\* The tick-scheduler specification
\* ------------------------------------------------------------------------
TickInit ==
  /\ impl = "tick"
  /\ LobbyStart /\ WsStart /\ RateStart /\ TickStart /\ EngineStart /\ SchedStart /\ RoomStart

TickNext ==
  \/ CreateTickManager
  \/ \E p \in TmPlayerIds : TmAddPlayer(p)
  \/ \E p \in TmPlayerIds : TmRemovePlayer(p)
  \/ \E p \in TmPlayerIds, t \in DeclaredTicks : SubmitInput(p, t)
  \/ StartTickManager
  \/ StopTickManager
  \/ PauseTickManager
  \/ ResumeTickManager
  \/ \E over \in BOOLEAN : TickLoop(over)

SpecTick == TickInit /\ [][TickNext]_vars

\* ------------------------------------------------------------------------
\* The scheduler life-cycle specification
\* ------------------------------------------------------------------------
SchedInit ==
  /\ impl = "sched"
  /\ LobbyStart /\ WsStart /\ RateStart /\ TickStart /\ EngineStart /\ SchedStart /\ RoomStart

SchedNext ==
  \/ CreateTickManager
  \/ StartTickManager
  \/ StopTickManager
  \/ PauseTickManager
  \/ ResumeTickManager
  \/ \E over \in BOOLEAN : TickLoop(over)
  \/ SnapshotLoop

SpecSched == SchedInit /\ [][SchedNext]_vars

\* ------------------------------------------------------------------------
\* The full-queue specification: one player, added once, submits inputs for
\* the last tick of the behaviour while the scheduler runs a game that does
\* not end
\* ------------------------------------------------------------------------
FloodPlayer == "p1"

FloodInit ==
  /\ impl = "flood"
  /\ LobbyStart /\ WsStart /\ RateStart /\ TickStart /\ EngineStart /\ SchedStart /\ RoomStart

FloodNext ==
  \/ CreateTickManager
  \/ FloodPlayer \notin SeqIds(tmPlayers) /\ TmAddPlayer(FloodPlayer)
  \/ SubmitInput(FloodPlayer, MaxTmTick)
  \/ StartTickManager
  \/ TickLoop(FALSE)

SpecFlood == FloodInit /\ [][FloodNext]_vars

\* ------------------------------------------------------------------------
\* The engine specification
\* ------------------------------------------------------------------------
\* A match is an engine after addPlayer / addAIPlayer and initializeGame:
\*   solo  the host alone (startGame starts a room of one player)
\*   duel  host and guest, as startGame adds them
\*   ai    host and the AI seat
MatchKinds == {"solo", "duel", "ai"}

\* the ids that send commands (p2 is no player of a solo or ai match)
EnginePlayerIds == {"p1", "p2"}

\* random draws of spawnUnit; units of the AI spawn beside its first base at
\* (3540, 3540), outside the map, where no fog tile, building site or command
\* input of the model depends on the draw
SpawnJitters == {<<0, 0>>, <<-30, 0>>}

SpawnJittersOf(e, ownerId) == IF ownerId = e.aiPlayerId THEN {<<0, 0>>} ELSE SpawnJitters

\* the draws of the host's three starting workers
InitialJitters == {<<<<0, 0>>, <<0, 0>>, <<0, 0>>>>, <<<<-30, 0>>, <<0, 0>>, <<0, 0>>>>}

\* Math.random() of updateAI in tenths: 0 gives a soldier, 9 a healer
AiRollInputs == {0, 9}

DifficultyInputs == {"normal"}

ProduceTypes == {"worker", "healer"}
BuildTypes == {"base", "farm"}
\* a free site east of the host's base and one that collides with it
BuildSites == {[x |-> 416, y |-> 308], [x |-> 400, y |-> 308]}
\* move targets lie on the unit's row, this many pixels away
MoveOffsets == {10}

Match(kind, difficulty, hostJitters) ==
  LET e1 == AddPlayer(NewEngine(difficulty), "p1", "Host", "host")
      e2 == CASE kind = "solo" -> e1
              [] kind = "duel" -> AddPlayer(e1, "p2", "Guest", "guest")
              [] kind = "ai" -> AddAIPlayer(e1, "ai")
  IN InitializeGame(e2, hostJitters, <<<<0, 0>>, <<0, 0>>>>)

\* the commands a client may send in state e
Commands(e) ==
  {ProduceAction(b, t) : b \in 1..Len(e.buildings), t \in ProduceTypes}
  \cup {BuildAction(t, s) : t \in BuildTypes, s \in BuildSites}
  \cup {MoveAction(u, [x |-> e.units[u].x + d, y |-> e.units[u].y]) :
          u \in {v \in 1..Len(e.units) : e.units[v].type = "worker"}, d \in MoveOffsets}
  \cup {AttackAction(ub[1], BuildingRef(ub[2])) :
          ub \in {p \in (1..Len(e.units)) \X (1..Len(e.buildings)) :
                    Dist2(e.units[p[1]], e.buildings[p[2]])
                      <= UNIT_STATS[e.units[p[1]].type].range
                           * UNIT_STATS[e.units[p[1]].type].range}}
  \cup {CancelProductionAction(b) : b \in 1..Len(e.buildings)}

TickLimit == IF engine.aiEnabled THEN MaxAiTicks ELSE MaxTicks

ActionLimit == IF engine.aiEnabled THEN MaxAiActions ELSE MaxActions

CommandTickLimit == IF engine.aiEnabled THEN MaxAiCommandTick ELSE MaxCommandTick



\* engine.processAction(playerId, action)
EngineProcessAction(playerId, action) ==
  /\ impl = "engine"
  /\ actionCount < ActionLimit
  /\ engine.tick <= CommandTickLimit
  /\ LET r == ProcessAction(engine, playerId, action)
     IN /\ engine' = r.engine
        /\ actionCount' = IF r.ok THEN actionCount + 1 ELSE actionCount
        /\ lastAction' = IF r.ok THEN [playerId |-> playerId, action |-> action]
                         ELSE lastAction
  /\ UNCHANGED <<lobbyVars, wsVars, rateVars, tickVars, schedVars, roomVars>>

\* engine.update(1), called by the tick interval
EngineUpdate ==
  /\ impl = "engine"
  /\ engine.tick < TickLimit
  /\ \E jitter \in [Spawning(engine) -> SpawnJitters],
        roll \in IF engine.aiEnabled THEN AiRollInputs ELSE {0} :
       /\ \A i \in Spawning(engine) :
            jitter[i] \in SpawnJittersOf(engine, engine.buildings[i].ownerId)
       /\ engine' = Update(engine, jitter, roll)
  /\ UNCHANGED <<actionCount, lastAction, lobbyVars, wsVars, rateVars, tickVars, schedVars, roomVars>>

EngineInit ==
  /\ impl = "engine"
  /\ LobbyStart /\ WsStart /\ RateStart /\ TickStart /\ SchedStart /\ RoomStart
  /\ actionCount = 0
  /\ lastAction = NoCall
  /\ \E kind \in MatchKinds, hostJitters \in InitialJitters :
       \E difficulty \in IF kind = "ai" THEN DifficultyInputs ELSE {"normal"} :
          engine = Match(kind, difficulty, hostJitters)

EngineNext ==
  \/ \E p \in EnginePlayerIds :
        \E a \in IF actionCount < ActionLimit /\ engine.tick <= CommandTickLimit
                 THEN Commands(engine) ELSE {} : EngineProcessAction(p, a)
  \/ EngineUpdate

SpecEngine == EngineInit /\ [][EngineNext]_vars


\* ------------------------------------------------------------------------
\* The room-in-play specification
\* ------------------------------------------------------------------------
\* the rooms startGame can have built: the host alone, or host and guest
RoomKinds == {"solo", "duel"}

\* the spawn draws of the host's three starting workers
RoomInitialJitters == {<<<<0, 0>>, <<0, 0>>, <<0, 0>>>>}

\* the sites of BuildSites and one south-west of the host's base, on the diagonal
RoomBuildSites == BuildSites \cup {[x |-> 238, y |-> 378]}

\* a move target inside the map
MoveTargetInput == [x |-> 100, y |-> 100]

\* the actions a client may send in state e: they name every unit and
\* building of the match and a unit that does not exist
RoomCommands(e) ==
  {BuildAction(t, s) : t \in BuildTypes, s \in RoomBuildSites}
  \cup {MoveAction(u, MoveTargetInput) : u \in 1..(Len(e.units) + 1)}
  \cup {ProduceAction(b, "worker") : b \in 1..Len(e.buildings)}

\* the constructor of the room's engine has returned
MapReady == mapGen.type = "done"

\* generateMap goes through its resource loops: one iteration, or the end of
\* a loop
GenerateMapStep ==
  /\ impl = "room"
  /\ ~MapReady
  /\ mapGen' = IF mapGen.left > 0 THEN PlaceResource(MapSeed, mapGen)
               ELSE IF mapGen.type = "gold"
                    THEN [mapGen EXCEPT !.type = "forest", !.left = NumForests(MapSeed)]
                    ELSE [mapGen EXCEPT !.type = "done"]
  /\ UNCHANGED <<roomPlayers, roomHostId, engVars, lobbyVars, wsVars, rateVars, tickVars, schedVars>>

\* a client's action arrives: processAction(roomId, playerId, action)
RoomProcessAction(playerId, action) ==
  /\ impl = "room"
  /\ MapReady
  /\ LET r == RmProcessAction(engine, playerId, action)
     IN /\ engine' = r.engine
        /\ playerRateLimits' =
             IF r.limited
             THEN MapPut(playerRateLimits, playerId, CheckRateLimitResult(playerId)[1])
             ELSE playerRateLimits
        /\ actionCount' = IF r.valid THEN actionCount + 1 ELSE actionCount
        /\ lastAction' = IF r.valid THEN [playerId |-> playerId, action |-> action]
                         ELSE lastAction
  /\ UNCHANGED <<now, passed, refused, roomVars, lobbyVars, wsVars, tickVars, schedVars>>

\* the tick interval of startGame: engine.update(1); endGame at game over
\* clears the interval, and so does cleanupRoom
RoomTick ==
  /\ impl = "room"
  /\ MapReady
  /\ RoomExists
  /\ ~engine.gameOver
  /\ engine.tick < MaxRoomTicks
  /\ \E jitter \in [Spawning(engine) -> SpawnJitters] : engine' = Update(engine, jitter, 0)
  /\ UNCHANGED <<actionCount, lastAction, roomVars, lobbyVars, wsVars, rateVars, tickVars, schedVars>>

\* leaveRoom(playerId): the player leaves room.players; when the host leaves,
\* the first remaining player becomes host, or the room is deleted
RoomLeave(playerId) ==
  /\ impl = "room"
  /\ MapReady
  /\ InRoom(playerId)
  /\ roomPlayers' = SelectSeq(roomPlayers, LAMBDA q : q # playerId)
  /\ roomHostId' = IF roomHostId = playerId /\ roomPlayers' # <<>>
                   THEN Head(roomPlayers') ELSE roomHostId
  /\ UNCHANGED <<mapGen, engVars, lobbyVars, wsVars, rateVars, tickVars, schedVars>>

\* Date.now() moves on
RoomClockTick ==
  /\ impl = "room"
  /\ MapReady
  /\ now < MaxRoomNow
  /\ now' = now + 1
  /\ UNCHANGED <<playerRateLimits, passed, refused, engVars, roomVars, lobbyVars, wsVars, tickVars, schedVars>>

RoomInit ==
  /\ impl = "room"
  /\ LobbyStart /\ WsStart /\ RateStart /\ TickStart /\ SchedStart
  /\ actionCount = 0
  /\ lastAction = NoCall
  /\ roomHostId = "p1"
  /\ mapGen = GoldLoopStart(MapSeed)
  /\ \E kind \in RoomKinds, hostJitters \in RoomInitialJitters :
       /\ engine = Match(kind, "normal", hostJitters)
       /\ roomPlayers = IF kind = "solo" THEN <<"p1">> ELSE <<"p1", "p2">>

RoomNext ==
  \/ GenerateMapStep
  \/ \E p \in EnginePlayerIds : \E a \in RoomCommands(engine) : RoomProcessAction(p, a)
  \/ RoomTick
  \/ \E p \in EnginePlayerIds : RoomLeave(p)
  \/ RoomClockTick

SpecRoom == RoomInit /\ [][RoomNext]_vars


\* ------------------------------------------------------------------------
\* The upgrade specification: a match whose players send upgrade and build
\* commands to the engine (as the tick scheduler hands them on)
\* ------------------------------------------------------------------------
MaxUpgradeTicks == 2

UpgradeTypes == {"attack", "defense", "range"}

\* upgrades at every building and at one that does not exist, and farms
UpgradeCommands(e) ==
  {UpgradeAction(b, t) : b \in 1..(Len(e.buildings) + 1), t \in UpgradeTypes}
  \cup {BuildAction("farm", s) : s \in BuildSites}

UpgradeProcessAction(playerId, action) ==
  /\ impl = "upgrade"
  /\ LET r == ProcessAction(engine, playerId, action)
     IN /\ engine' = r.engine
        /\ actionCount' = IF r.ok THEN actionCount + 1 ELSE actionCount
        /\ lastAction' = IF r.ok THEN [playerId |-> playerId, action |-> action]
                         ELSE lastAction
  /\ UNCHANGED <<lobbyVars, wsVars, rateVars, tickVars, schedVars, roomVars>>

UpgradeTick ==
  /\ impl = "upgrade"
  /\ engine.tick < MaxUpgradeTicks
  /\ \E jitter \in [Spawning(engine) -> SpawnJitters] : engine' = Update(engine, jitter, 0)
  /\ UNCHANGED <<actionCount, lastAction, lobbyVars, wsVars, rateVars, tickVars, schedVars, roomVars>>

UpgradeInit ==
  /\ impl = "upgrade"
  /\ LobbyStart /\ WsStart /\ RateStart /\ TickStart /\ SchedStart /\ RoomStart
  /\ actionCount = 0
  /\ lastAction = NoCall
  /\ \E kind \in RoomKinds : engine = Match(kind, "normal", <<<<0, 0>>, <<0, 0>>, <<0, 0>>>>)

UpgradeNext ==
  \/ \E p \in EnginePlayerIds : \E a \in UpgradeCommands(engine) : UpgradeProcessAction(p, a)
  \/ UpgradeTick

SpecUpgrade == UpgradeInit /\ [][UpgradeNext]_vars

\* ------------------------------------------------------------------------
\* The tower specification: a host-and-guest match in which the players
\* place bases and towers
\* ------------------------------------------------------------------------
MaxTowerTicks == 3

\* a site within the tower's range of the host's workers, and one out of it
TowerSites == {[x |-> 416, y |-> 308], [x |-> 416, y |-> 500]}

TowerCommands == {BuildAction(t, s) : t \in {"base", "tower"}, s \in TowerSites}

TowerProcessAction(playerId, action) ==
  /\ impl = "tower"
  /\ LET r == ProcessAction(engine, playerId, action)
     IN /\ engine' = r.engine
        /\ actionCount' = IF r.ok THEN actionCount + 1 ELSE actionCount
        /\ lastAction' = IF r.ok THEN [playerId |-> playerId, action |-> action]
                         ELSE lastAction
  /\ UNCHANGED <<lobbyVars, wsVars, rateVars, tickVars, schedVars, roomVars>>

TowerTick ==
  /\ impl = "tower"
  /\ engine.tick < MaxTowerTicks
  /\ \E jitter \in [Spawning(engine) -> SpawnJitters] : engine' = Update(engine, jitter, 0)
  /\ UNCHANGED <<actionCount, lastAction, lobbyVars, wsVars, rateVars, tickVars, schedVars, roomVars>>

TowerInit ==
  /\ impl = "tower"
  /\ LobbyStart /\ WsStart /\ RateStart /\ TickStart /\ SchedStart /\ RoomStart
  /\ actionCount = 0
  /\ lastAction = NoCall
  /\ engine = Match("duel", "normal", <<<<0, 0>>, <<0, 0>>, <<0, 0>>>>)

TowerNext ==
  \/ \E p \in EnginePlayerIds : \E a \in TowerCommands : TowerProcessAction(p, a)
  \/ TowerTick

SpecTower == TowerInit /\ [][TowerNext]_vars

\* ========================================================================
\* Properties
\* ========================================================================
\* the registry the behaviour exercises, and what its calls return there
Rooms ==
  CASE impl = "rm" -> rmRooms [] impl = "ml" -> mlRooms [] impl = "kv" -> kvRooms
    [] OTHER -> EmptyMap

IsWaiting(room) == IF impl = "rm" THEN room.status = "waiting" ELSE ~room.gameStarted

IsStarted(room) ==
  IF impl = "rm" THEN room.status = "playing" /\ room.engine ELSE room.gameStarted

HostOf(room) == IF impl = "rm" THEN room.hostId ELSE room.host

\* <<registry after joinRoom(roomId, playerId), joinRoom returned the room>>
JoinOutcome(roomId, playerId) ==
  CASE impl = "rm" -> RMJoinResult(roomId, playerId)
    [] impl = "ml" -> <<MLJoinResult(roomId, playerId)[1].rooms, MLJoinResult(roomId, playerId)[2]>>
    [] impl = "kv" -> <<KVJoinResult(roomId, playerId)[1].rooms, KVJoinResult(roomId, playerId)[2]>>

\* registry after leaveRoom(playerId)
LeaveOutcome(playerId) ==
  CASE impl = "rm" -> RMLeaveResult(playerId)
    [] impl = "ml" -> MLLeaveResult(MLState, playerId).rooms
    [] impl = "kv" -> KVLeaveResult(KVState, playerId).rooms

StartOutcome(roomId, playerId) ==
  CASE impl = "rm" -> RMStartAllowed(roomId, playerId)
    [] impl = "ml" -> MLStartAllowed(roomId, playerId)
    [] impl = "kv" -> KVStartAllowed(roomId, playerId)

RedGuest(playerId) ==
  [id |-> playerId, team |-> "guest", ready |-> FALSE, color |-> "#DC143C"]

\* C8: in each of the three lobbies, a join by a player who is not a member
\* of the room returns the room and appends the player as guest (team guest,
\* colour red, nothing else changed in the room) exactly when the room
\* exists, is waiting and holds fewer than 2 players, and otherwise leaves
\* the room as it was; and no room ever holds more than 2 players.
C8_JoinIffWaitingAndNotFull ==
  /\ \A r \in DOMAIN Rooms : Len(Rooms[r].players) <= 2
  /\ \A r \in RoomIdInputs, p \in PlayerIds :
       (r \in DOMAIN Rooms => p \notin SeqIds(Rooms[r].players)) =>
         LET admitted == /\ r \in DOMAIN Rooms
                         /\ IsWaiting(Rooms[r])
                         /\ Len(Rooms[r].players) < 2
             after == JoinOutcome(r, p)[1]
         IN /\ JoinOutcome(r, p)[2] <=> admitted
            /\ admitted =>
                 /\ r \in DOMAIN after
                 /\ after[r] = [Rooms[r] EXCEPT !.players = Append(@, RedGuest(p))]
            /\ ~admitted => (r \in DOMAIN Rooms => (r \in DOMAIN after /\ after[r] = Rooms[r]))

\* C8 witness: a join has happened: some room holds its host and, second, a red guest
C8_Witness_GuestJoined ==
  \E r \in DOMAIN Rooms :
    /\ Len(Rooms[r].players) = 2
    /\ Rooms[r].players[1].team = "host"
    /\ Rooms[r].players[2].team = "guest"
    /\ Rooms[r].players[2].color = "#DC143C"

\* C9: a room goes from not started to started (and gets its engine) only
\* from a state in which it was waiting, every player was ready and at least
\* 2 players were in it (no registry has an AI slot), and only the host's
\* start call succeeds.
C9_StartOnlyWhenAllReadyAndTwo ==
  [][ /\ \A r \in RoomIdInputs, p \in PlayerIds :
           StartOutcome(r, p) => p = HostOf(Rooms[r])
      /\ \A r \in DOMAIN Rooms :
           (r \in DOMAIN Rooms' /\ ~IsStarted(Rooms[r]) /\ IsStarted(Rooms'[r])) =>
             /\ IsWaiting(Rooms[r])
             /\ AllReady(Rooms[r].players)
             /\ Len(Rooms[r].players) >= 2 ]_vars

\* C10: whenever a player is listed in exactly one room, a leaveRoom call by
\* that player has this outcome: the player is no longer in that room's
\* player list; if the player was the host and others remain, the room's
\* host is one of them and exactly that player has team host and the host
\* colour; if nobody remains, the room is gone from the registry.
C10_LeaveRemovesAndPromotes ==
  \A p \in PlayerIds, r \in DOMAIN Rooms :
    (/\ p \in SeqIds(Rooms[r].players)
     /\ \A q \in DOMAIN Rooms : q # r => p \notin SeqIds(Rooms[q].players)) =>
      LET after == LeaveOutcome(p)
          rest  == SeqFilterOut(Rooms[r].players, p)
      IN /\ r \in DOMAIN after => p \notin SeqIds(after[r].players)
         /\ (rest = <<>>) => r \notin DOMAIN after
         /\ (rest # <<>> /\ HostOf(Rooms[r]) = p) =>
              /\ r \in DOMAIN after
              /\ HostOf(after[r]) \in SeqIds(rest)
              /\ \A k \in 1..Len(after[r].players) :
                   (after[r].players[k].team = "host" /\ after[r].players[k].color = "#4169E1")
                     <=> after[r].players[k].id = HostOf(after[r])

\* number of recorded passes of player c within the last `window` time units
PassesWithin(c, window) == Len(SelectSeq(passed[c], LAMBDA a : now - a < window))

\* C5: for every player, at most MaxActionsPerSecond calls pass the rate
\* limiter within any window of one "second", and at most
\* MaxActionsPerMinute within any window of one "minute".
C5_SlidingWindowLimits ==
  \A c \in RateClients :
    /\ PassesWithin(c, SecondWindow) <= MaxActionsPerSecond
    /\ PassesWithin(c, MinuteWindow) <= MaxActionsPerMinute

\* the ids of a sequence of inputs or of recorded calls
IdsOf(q) == [j \in 1..Len(q) |-> q[j].id]

\* C4: at each tick, for each player of the room, the tick loop applies
\* exactly the pending inputs whose declared tick is at most the current
\* tick, in the order the player submitted them (so an input whose tick has
\* passed is applied, and none is dropped unapplied).
C4_TickAppliesAllDueInputs ==
  [][ tickCount' = tickCount + 1 =>
        /\ discarded' = discarded
        /\ \A k \in 1..Len(tmPlayers) :
             LET due == SelectSeq(tmPlayers[k].pendingInputs,
                                  LAMBDA i : i.tick <= tickCount + 1)
                 new == SubSeq(applied', Len(applied) + 1, Len(applied'))
                 got == SelectSeq(new, LAMBDA a : a.player = tmPlayers[k].id)
             IN IdsOf(got) = IdsOf(due) ]_vars

\* ---- game engine ----------------------------------------------------------
RECURSIVE SupplySum(_)
\* total supply cost of a sequence of records with a unit type
SupplySum(s) ==
  IF s = <<>> THEN 0 ELSE UNIT_STATS[Head(s).type].supply + SupplySum(Tail(s))

RECURSIVE QueuedSupply(_, _, _)
QueuedSupply(e, playerId, i) ==
  IF i > Len(e.buildings) THEN 0
  ELSE (IF e.buildings[i].ownerId = playerId
        THEN SupplySum(e.buildings[i].productionQueue) ELSE 0)
       + QueuedSupply(e, playerId, i + 1)

\* supply of the player's live units plus supply of the player's queued productions
CurrentSupply(e, playerId) ==
  SupplySum(SelectSeq(e.units, LAMBDA u : u.ownerId = playerId /\ u.hp > 0))
  + QueuedSupply(e, playerId, 1)

\* C1: in every reachable state every player's current supply (live units
\* plus queued productions) is at most that player's maxSupply.
C1_SupplyWithinMaxSupply ==
  \A i \in 1..Len(engine.players) :
     CurrentSupply(engine, engine.players[i].id) <= engine.players[i].maxSupply

\* C2: gameOver never reverts from true to false (so it changes from false to
\* true at most once), and in every reachable state winner is non-null if and
\* only if gameOver is true.
C2_GameOverOnceAndWinnerIff ==
  /\ []((engine.winner # NULL) <=> engine.gameOver)
  /\ [][engine.gameOver => engine'.gameOver]_vars

\* C2 witness: a match that ended at a tick with a winner, with a command
\* accepted at some point of it.
C2_Witness_MatchEndedWithWinner ==
  /\ engine.gameOver
  /\ engine.winner = "p1"
  /\ engine.tick >= 1
  /\ actionCount >= 1

GuestIds(e) == {e.players[i].id : i \in {j \in 1..Len(e.players) : e.players[j].team = "guest"}}

HostBases(e) ==
  {i \in 1..Len(e.buildings) :
     /\ e.buildings[i].type = "base"
     /\ HostPlayerIndex(e) # 0
     /\ e.buildings[i].ownerId = e.players[HostPlayerIndex(e)].id}

\* C3: if the host's only base is at hp <= 0 while the guest owns a base, then
\* after the next engine tick gameOver is true, winner is the guest's id and
\* the reason contains "eliminated".
C3_HostBaseDestroyedEndsMatch ==
  [][ ( /\ Cardinality(HostBases(engine)) = 1
        /\ \A i \in HostBases(engine) : engine.buildings[i].hp <= 0
        /\ \E g \in GuestIds(engine) : HasBase(engine, g)
        /\ engine'.tick = engine.tick + 1 )
      => ( /\ engine'.gameOver
           /\ engine'.winner \in GuestIds(engine)
           /\ engine'.winnerReason.suffix = "eliminated" ) ]_vars

\* C6: an accepted produce action for unit variant v decreases the sender's
\* gold and wood by exactly v's cost, increases the sender's supply by exactly
\* v's supply cost, and changes no other player's resources.
C6_ProduceDebitsAndReservesSupply ==
  [][ (actionCount' = actionCount + 1 /\ lastAction'.action.type = "produce")
      => LET stats == UNIT_STATS[lastAction'.action.kind]
         IN /\ Len(engine'.players) = Len(engine.players)
            /\ \A i \in 1..Len(engine.players) :
                 IF engine.players[i].id = lastAction'.playerId
                 THEN /\ engine'.players[i].gold = engine.players[i].gold - stats.gold * GoldUnit
                      /\ engine'.players[i].wood = engine.players[i].wood - stats.wood
                      /\ engine'.players[i].supply = engine.players[i].supply + stats.supply
                 ELSE /\ engine'.players[i].gold = engine.players[i].gold
                      /\ engine'.players[i].wood = engine.players[i].wood
                      /\ engine'.players[i].supply = engine.players[i].supply
                      /\ engine'.players[i].maxSupply = engine.players[i].maxSupply ]_vars

\* C7: a tile in a player's discovered set after some tick is in that
\* player's discovered set after every later tick of the match.
C7_DiscoveredTilesOnlyGrow ==
  [][ \A id \in DOMAIN engine.discoveredTiles :
         engine.discoveredTiles[id] \subseteq engine'.discoveredTiles[id] ]_vars

\* ---- tick scheduler: drivers and snapshots ---------------------------------
\* C11: once the engine has reported gameOver after a tick, the scheduler is
\* stopped with both timers cleared (no interval of the room is left alive),
\* and no further tick-loop pass and no further snapshot broadcast occurs.
C11_GameOverStopsBothDrivers ==
  /\ [](tmEngineOver => (tmStatus = "stopped" /\ ~tmHandle /\ tmIntervals = 0))
  /\ [][tmEngineOver => (tickCount' # tickCount + 1 /\ snapshots' = snapshots)]_vars

RatePasses(playerId) == CheckRateLimitResult(playerId)[2]

OwnsBuilding(e, playerId, buildingId) ==
  buildingId \in 1..Len(e.buildings) /\ e.buildings[buildingId].ownerId = playerId

\* C13: with the other gates passing (the sender is in the room, the rate
\* limit lets the action through, the target is inside the map, the engine
\* would carry the action out), processAction accepts an action that names a
\* unit or a building exactly when that entity exists and is owned by the
\* sender: owned is accepted, missing or owned by another is rejected.
C13_OwnedEntityActionAccepted ==
  impl = "room" =>
    \A p \in EnginePlayerIds :
      (RoomExists /\ InRoom(p) /\ RatePasses(p)) =>
        /\ \A u \in 1..(Len(engine.units) + 1) :
             RmProcessAction(engine, p, MoveAction(u, MoveTargetInput)).valid
               <=> OwnsUnit(engine, p, u)
        /\ \A b \in 1..(Len(engine.buildings) + 1) :
             IF OwnsBuilding(engine, p, b)
             THEN ProcessAction(engine, p, ProduceAction(b, "worker")).ok
                    => RmProcessAction(engine, p, ProduceAction(b, "worker")).valid
             ELSE ~RmProcessAction(engine, p, ProduceAction(b, "worker")).valid

\* C14: an action that processAction refuses, whether at the rate limit, in
\* validation or in the engine, comes back as valid = false with a reason and
\* leaves the engine's game state exactly as it was.
C14_RejectedActionLeavesEngine ==
  impl = "room" =>
    \A p \in EnginePlayerIds, a \in RoomCommands(engine) :
      LET r == RmProcessAction(engine, p, a)
      IN ~r.valid => (r.reason # NULL /\ r.engine = engine)

\* C14 witness: a room in which one player is at the rate limit, an action of
\* another fails validation and a build of theirs fails in the engine (the
\* engine's own wood count no longer covers a farm)
C14_Witness_EachKindOfRejection ==
  /\ impl = "room"
  /\ \E p \in EnginePlayerIds : InRoom(p) /\ ~RatePasses(p)
  /\ \E p \in EnginePlayerIds, a \in RoomCommands(engine) :
       RmProcessAction(engine, p, a).reason = "Unit not owned by player"
  /\ \E p \in EnginePlayerIds, a \in RoomCommands(engine) :
       /\ a.type = "build"
       /\ RmProcessAction(engine, p, a).reason = "Failed to process action"

\* the tiles a square footprint of the given size centred at (x, y) overlaps
FootprintTiles(x, y, size) ==
  {t \in (0..(MAP_TILES_X - 1)) \X (0..(MAP_TILES_Y - 1)) :
     /\ x - size \div 2 < (t[1] + 1) * TILE_SIZE /\ x + size \div 2 > t[1] * TILE_SIZE
     /\ y - size \div 2 < (t[2] + 1) * TILE_SIZE /\ y + size \div 2 > t[2] * TILE_SIZE}

Impassable(t) == TileAt(MapSeed, mapGen.placed, t[1], t[2]) \in {"water", "mountain"}

\* C15: the building an accepted build action creates has no impassable
\* (water or mountain) tile under its footprint.
C15_BuildNeverCoversImpassable ==
  [][(impl = "room" /\ actionCount' = actionCount + 1 /\ lastAction'.action.type = "build")
       => LET b == engine'.buildings[Len(engine'.buildings)]
          IN \A t \in FootprintTiles(b.x, b.y, b.size) : ~Impassable(t)]_vars

\* the gap between the footprints of two buildings along one axis
\* (negative: they overlap along it)
AxisGap(ca, cb, sizeA, sizeB) ==
  (IF ca > cb THEN ca - cb ELSE cb - ca) - (sizeA + sizeB) \div 2

\* whether two square footprints are disjoint and at least gap pixels apart
FootprintsApart(a, b, gap) ==
  LET gx == AxisGap(a.x, b.x, a.size, b.size)
      gy == AxisGap(a.y, b.y, a.size, b.size)
  IN \/ gx >= gap
     \/ gy >= gap
     \/ (gx > 0 /\ gy > 0 /\ gx * gx + gy * gy >= gap * gap)

\* C16: any two distinct buildings of a match, the match-start buildings
\* included, have footprints that do not overlap and lie at least 10 pixels
\* apart, also when one is placed diagonally from the other.
C16_FootprintsApart ==
  impl = "room" =>
    \A i \in 1..Len(engine.buildings) : \A j \in (i + 1)..Len(engine.buildings) :
       FootprintsApart(engine.buildings[i], engine.buildings[j], 10)

\* C17: the owner of every unit and building of the engine is a player that
\* is in the room's player set now, also after a player has left during play.
C17_OwnersAreRoomPlayers ==
  (impl = "room" /\ RoomExists) =>
    /\ \A i \in 1..Len(engine.units) : InRoom(engine.units[i].ownerId)
    /\ \A i \in 1..Len(engine.buildings) : InRoom(engine.buildings[i].ownerId)

\* ---- determinism -------------------------------------------------------------
\* C18: two engines built with the same seed and difficulty and fed the same
\* inputs are in the same state after initialization and after every tick
\* (same entities, positions, hp, resources, gameOver, winner), whatever the
\* draws of Math.random() in each, and give their resources the same ids.
C18_SameInputsSameSnapshots ==
  impl = "engine" =>
    /\ \A kind \in MatchKinds, j1 \in InitialJitters, j2 \in InitialJitters :
         Match(kind, "normal", j1) = Match(kind, "normal", j2)
    /\ \A j1 \in [Spawning(engine) -> SpawnJitters], j2 \in [Spawning(engine) -> SpawnJitters] :
         \A r1 \in AiRollInputs, r2 \in AiRollInputs :
           Update(engine, j1, r1) = Update(engine, j2, r2)
    /\ \A t1 \in IdClockInputs, t2 \in IdClockInputs :
         \A c1 \in IdCounterInputs, c2 \in IdCounterInputs :
           \A s1 \in IdSuffixInputs, s2 \in IdSuffixInputs :
             GenerateId(t1, c1, s1) = GenerateId(t2, c2, s2)

\* ---- rejoin --------------------------------------------------------------------
\* C19: in each of the three lobbies, a join by a player who is already a
\* member of a waiting room returns the room and leaves its players, with
\* their teams, colours and ready flags, as they were, whether the room
\* holds one player or two.
C19_RejoinSucceedsAndChangesNothing ==
  \A r \in DOMAIN Rooms, p \in PlayerIds :
    (IsWaiting(Rooms[r]) /\ p \in SeqIds(Rooms[r].players)) =>
      /\ JoinOutcome(r, p)[2]
      /\ r \in DOMAIN JoinOutcome(r, p)[1]
      /\ JoinOutcome(r, p)[1][r].players = Rooms[r].players

\* C20: once a player has left a room of the room manager that is playing
\* (and the room is still there), a join of that room by the same id, made
\* at once and so within the 60 seconds of grace, returns the room.
C20_RejoinWithinGraceRestores ==
  [][\A r \in DOMAIN rmRooms, p \in PlayerIds :
       (/\ impl = "rm"
        /\ rmRooms[r].status = "playing"
        /\ p \in SeqIds(rmRooms[r].players)
        /\ r \in DOMAIN rmRooms'
        /\ p \notin SeqIds(rmRooms'[r].players))
       => (RMJoinResult(r, p)[2])']_vars

\* ---- sweepers ------------------------------------------------------------------
\* the rooms the lobby's sweeper would delete now
Swept ==
  CASE impl = "rm" -> RMSwept
    [] impl = "ml" -> MLSwept
    [] impl = "kv" -> KVSwept
    [] OTHER -> {}

\* C21: in each of the three lobbies, a room that the periodic sweeper
\* deletes is older than one hour and was never started; a room that is
\* playing is never deleted by the sweeper.
C21_SweeperDeletesOnlyOldUnstarted ==
  \A r \in Swept : Rooms[r].expired /\ IsWaiting(Rooms[r])

C23_AppliedInArrivalOrder ==
  [][impl = "tick" =>
       \A i \in (Len(applied) + 1)..Len(applied') :
         \A j \in (i + 1)..Len(applied') : applied'[i].id < applied'[j].id]_vars

\* ---- draws -------------------------------------------------------------------------
\* the game states of two players of whom none owns a base: no building at
\* all, and each player with or without a worker
BaselessMatches ==
  LET e0 == AddPlayer(AddPlayer(NewEngine("normal"), "p1", "Host", "host"),
                      "p2", "Guest", "guest")
      e1 == SpawnUnit(e0, "worker", "p1", <<0, 0>>)
  IN {e0, e1, SpawnUnit(e0, "worker", "p2", <<0, 0>>), SpawnUnit(e1, "worker", "p2", <<0, 0>>)}

LevelCap(upgradeType) == IF upgradeType = "range" THEN 2 ELSE 3

\* C25: every player's upgrade levels are at most 3 for attack and defense
\* and 2 for range, and an upgrade command for a type that is at its cap is
\* refused and leaves the engine, the player's gold included, as it was.
C25_UpgradeCapsHold ==
  impl = "upgrade" =>
    /\ \A i \in 1..Len(engine.players) : \A t \in UpgradeTypes :
         engine.players[i].upgrades[t] <= LevelCap(t)
    /\ \A i \in 1..Len(engine.players) : \A t \in UpgradeTypes :
         engine.players[i].upgrades[t] >= LevelCap(t) =>
           \A b \in 1..(Len(engine.buildings) + 1) :
             LET r == ProcessAction(engine, engine.players[i].id, UpgradeAction(b, t))
             IN ~r.ok /\ r.engine = engine

\* C25 witness: a player has brought range to its cap of 2 by two accepted
\* upgrades at a building of theirs
C25_Witness_RangeAtCap ==
  /\ impl = "upgrade"
  /\ \E i \in 1..Len(engine.players) :
       /\ engine.players[i].upgrades.range = 2
       /\ FirstBase(engine, engine.players[i].id) # 0
  /\ lastAction.action.type = "upgrade"
  /\ actionCount >= 2

\* ---- drivers ---------------------------------------------------------------------
\* C26: at any time at most one tick-loop interval and one snapshot-loop
\* interval of the room are alive, whatever start, pause, resume and stop
\* calls were made, so a tick period advances the engine at most once.
C26_AtMostOneDriverPair ==
  impl = "sched" => tmIntervals <= 1

\* C27: an input that is pending with a declared tick ahead of the tick
\* count stays pending, or is applied at the tick it declares, in every step
\* that neither removes its player nor stops the scheduler, however many
\* inputs the player submits; and no input is applied twice.
C27_AcceptedFutureInputAppliedOnce ==
  [][impl = "flood" =>
       /\ \A i, j \in 1..Len(applied') : applied'[i].id = applied'[j].id => i = j
       /\ \A k \in 1..Len(tmPlayers) : \A n \in 1..Len(tmPlayers[k].pendingInputs) :
            LET input == tmPlayers[k].pendingInputs[n]
            IN input.tick > tickCount =>
                 \/ tmPlayers[k].id \notin SeqIds(tmPlayers')
                 \/ tmStatus' = "stopped"
                 \/ \E m \in 1..Len(tmPlayers') :
                      /\ tmPlayers'[m].id = tmPlayers[k].id
                      /\ \E q \in 1..Len(tmPlayers'[m].pendingInputs) :
                           tmPlayers'[m].pendingInputs[q] = input
                 \/ \E a \in (Len(applied) + 1)..Len(applied') :
                      applied'[a].id = input.id /\ applied'[a].at = input.tick]_vars

\* a base of the player that is fully built
OwnsCompletedBase(e, playerId) ==
  \E i \in 1..Len(e.buildings) :
     /\ e.buildings[i].ownerId = playerId
     /\ e.buildings[i].type = "base"
     /\ e.buildings[i].progress >= 100

\* C28: in a match of two human players every player of the engine owns a
\* completed base right after the start (tick 0, no command processed yet),
\* and gameOver is true only once a base stands at hp <= 0.
C28_TwoHumansStartWithBases ==
  (impl = "engine" /\ ~engine.aiEnabled /\ Len(engine.players) = 2) =>
     /\ (engine.tick = 0 /\ actionCount = 0) =>
          \A i \in 1..Len(engine.players) : OwnsCompletedBase(engine, engine.players[i].id)
     /\ engine.gameOver =>
          \E i \in 1..Len(engine.buildings) :
             engine.buildings[i].type = "base" /\ engine.buildings[i].hp <= 0

\* C29: at the end of every engine tick no unit and no building of the
\* engine's state has hp <= 0.
C29_NoDeadEntityAfterTick ==
  [][(impl = "engine" /\ engine'.tick = engine.tick + 1) =>
        /\ \A i \in 1..Len(engine'.units) : engine'.units[i].hp > 0
        /\ \A i \in 1..Len(engine'.buildings) : engine'.buildings[i].hp > 0]_vars

\* C30: an engine tick leaves every item queued at a building that is still
\* below progress 100 in the queue with the progress it had (no item is
\* advanced, none is completed), and spawns no unit when only such buildings
\* have items queued.
C30_UnfinishedBuildingIsIdle ==
  [][(impl = "engine" /\ engine'.tick = engine.tick + 1) =>
        /\ \A i \in 1..Len(engine.buildings) :
             engine'.buildings[i].progress < 100 =>
               \A k \in 1..Len(engine.buildings[i].productionQueue) :
                  /\ k <= Len(engine'.buildings[i].productionQueue)
                  /\ engine'.buildings[i].productionQueue[k]
                       = engine.buildings[i].productionQueue[k]
        /\ (\A i \in 1..Len(engine.buildings) :
              engine'.buildings[i].progress >= 100 => engine.buildings[i].productionQueue = <<>>)
           => Len(engine'.units) = Len(engine.units)]_vars

\* the standing buildings of a type that a player owns
Standing(e, playerId, type) ==
  {i \in 1..Len(e.buildings) :
     /\ e.buildings[i].ownerId = playerId
     /\ e.buildings[i].type = type
     /\ e.buildings[i].hp > 0}

CompletedFarms(e, playerId) ==
  {i \in Standing(e, playerId, "farm") : e.buildings[i].progress >= 100}

ExtraBases(e, playerId) ==
  IF Cardinality(Standing(e, playerId, "base")) > 1
  THEN Cardinality(Standing(e, playerId, "base")) - 1 ELSE 0

\* C31: once a tick has run, every player's maxSupply is 10, plus 8 for each
\* completed farm of the player, plus 10 for each base of the player beyond
\* the first.
C31_MaxSupplyFormula ==
  (impl = "engine" /\ engine.tick >= 1) =>
     \A p \in 1..Len(engine.players) :
        engine.players[p].maxSupply
          = 10 + 8 * Cardinality(CompletedFarms(engine, engine.players[p].id))
               + 10 * ExtraBases(engine, engine.players[p].id)

IsPrefix(s, t) == Len(s) <= Len(t) /\ SubSeq(t, 1, Len(s)) = s

\* the buildings, in Map order, whose head item reaches its build time at the next tick
CompletingBuildings(e) ==
  SelectSeq([i \in 1..Len(e.buildings) |-> i], LAMBDA i : i \in Spawning(e))

\* C32: an accepted produce action appends its item at the end of the
\* building's queue.  At a tick only the head item of each queue accrues
\* progress; a head item that reaches its build time leaves the queue, the
\* items behind it keep their order and progress, and the tick adds exactly
\* one unit per completed item, of the item's variant and owned by the
\* building's owner.
C32_QueueIsFifo ==
  [][impl = "engine" =>
       /\ (actionCount' = actionCount + 1 /\ lastAction'.action.type = "produce") =>
            LET b == lastAction'.action.buildingId
            IN engine'.buildings[b].productionQueue
                 = Append(engine.buildings[b].productionQueue,
                          [type |-> lastAction'.action.kind, progress |-> 0])
       /\ engine'.tick = engine.tick + 1 =>
            LET done == CompletingBuildings(engine)
            IN /\ \A i \in 1..Len(engine.buildings) :
                    LET queue == engine.buildings[i].productionQueue
                    IN queue # <<>> =>
                         IF i \in Spawning(engine)
                         THEN IsPrefix(Tail(queue), engine'.buildings[i].productionQueue)
                         ELSE IsPrefix([queue EXCEPT ![1].progress = @ + 1],
                                       engine'.buildings[i].productionQueue)
               /\ Len(engine'.units) = Len(engine.units) + Len(done)
               /\ \A k \in 1..Len(done) :
                    LET unit == engine'.units[Len(engine.units) + k]
                        building == engine.buildings[done[k]]
                    IN /\ unit.type = Head(building.productionQueue).type
                       /\ unit.ownerId = building.ownerId]_vars

\* C32 witness: two items queued at one building, the head two ticks into its
\* build time and the item behind it untouched.
C32_Witness_SecondItemWaits ==
  /\ impl = "engine"
  /\ \E i \in 1..Len(engine.buildings) :
       /\ Len(engine.buildings[i].productionQueue) = 2
       /\ engine.buildings[i].productionQueue[1] = [type |-> "healer", progress |-> 2]
       /\ engine.buildings[i].productionQueue[2] = [type |-> "worker", progress |-> 0]

\* ---- damage ------------------------------------------------------------------------
\* updateUnitAttack and updateProjectiles: an archer, and every unit whose
\* target is a tower, sends a projectile that carries unit.attackDamage; the
\* others strike at once.  The amount one attack takes from the target's hp,
\* for a unit spawned when its owner's attack level was attackAtSpawn.
DamageDealt(e, attacker, attackAtSpawn, target) ==
  IF attacker.type = "archer" \/ target.type = "tower"
  THEN CalculateDamageFromProjectile(e,
         ProjectileDamage(SpawnAttackDamage(attacker.type, attackAtSpawn,
                                            HasBase(e, attacker.ownerId))),
         attacker.ownerId, target)
  ELSE CalculateDamage(e, attacker, target)

\* C33: with the upgrade levels the players have, an attack of a unit of
\* one player on an entity of another takes max(1, base damage + 2 x the
\* attacker's attack level - 2 x the target owner's defense level) from the
\* target's hp, by a strike and by a projectile alike, whenever the unit was spawned.
C33_DamageCountsUpgradeOnce ==
  impl = "upgrade" =>
    \A p, q \in 1..Len(engine.players) :
      p # q =>
        \A type \in DamageTypes, targetType \in {"soldier", "tower"} :
          \A attackAtSpawn \in 0..engine.players[p].upgrades.attack :
            DamageDealt(engine, [type |-> type, ownerId |-> engine.players[p].id],
                        attackAtSpawn,
                        [type |-> targetType, ownerId |-> engine.players[q].id])
              = Max(1, BaseDamageOf(type) + 2 * engine.players[p].upgrades.attack
                         - 2 * engine.players[q].upgrades.defense)

\* ---- towers ------------------------------------------------------------------------
\* C34: two projectiles fired by the same tower were created at least 60
\* ticks apart.
C34_TowerShotsSixtyTicksApart ==
  impl = "tower" =>
    \A k, l \in 1..Len(engine.projectiles) :
      (k < l /\ engine.projectiles[k].tower # 0
             /\ engine.projectiles[k].tower = engine.projectiles[l].tower)
        => engine.projectiles[l].createdAt - engine.projectiles[k].createdAt >= 60

\* ---- validation and engine ---------------------------------------------------------
\* C35: no action that a player of the room sends is answered with 'Failed
\* to process action': what validateAction lets through, the engine applies.
C35_ValidatedActionIsApplied ==
  impl = "room" =>
    \A p \in EnginePlayerIds, a \in RoomCommands(engine) :
      RmProcessAction(engine, p, a).reason # "Failed to process action"

\* ---- rate limiter after a refusal -------------------------------------------------
\* C36: when a player's last call was refused at the per-minute limit and a
\* "minute" or more has passed since, with no call of the player in between,
\* the call the player makes now is accepted.
C36_AcceptedAfterSilentMinute ==
  impl = "rate" =>
    \A c \in RateClients :
      (refused[c] >= 0 /\ now - refused[c] >= MinuteWindow) => CheckRateLimitResult(c)[2]

\* ---- in-memory lobby index ---------------------------------------------------------
\* C37: in the in-memory lobby, playerRooms maps a player to a room exactly
\* when the player is in that room's player list.
C37_IndexAgreesWithPlayerLists ==
  impl = "ml" =>
    \A p \in PlayerIds, r \in RoomIdInputs :
      (p \in DOMAIN mlPlayerRooms /\ mlPlayerRooms[p] = r)
        <=> (r \in DOMAIN mlRooms /\ p \in SeqIds(mlRooms[r].players))

\* ---- key-value lobby: interleaved calls ---------------------------------------------
\* what a call that reported success did to the room
EffectPresent(call) ==
  CASE call.op = "toggleReady" ->
         /\ call.roomId \in DOMAIN kvRooms
         /\ \E i \in 1..Len(kvRooms[call.roomId].players) :
              /\ kvRooms[call.roomId].players[i].id = call.playerId
              /\ kvRooms[call.roomId].players[i].ready = call.set
    [] call.op = "joinRoom" ->
         /\ call.roomId \in DOMAIN kvRooms
         /\ call.playerId \in SeqIds(kvRooms[call.roomId].players)
    [] call.op = "startGame" ->
         /\ call.roomId \in DOMAIN kvRooms
         /\ kvRooms[call.roomId].gameStarted
    [] OTHER ->
         \/ call.leftId \notin DOMAIN kvRooms
         \/ call.playerId \notin SeqIds(kvRooms[call.leftId].players)

\* C38: when two calls of different players about the same room have both
\* returned, every one of them that reported success has its effect in the
\* stored room: the ready flag it set, the player it added or removed, the
\* started game.
C38_NoUpdateLost ==
  impl = "kvrace" =>
    (((\A c \in CallIds : kvCalls[c].pc = "done")
        /\ kvCalls[1].playerId # kvCalls[2].playerId)
      => (\A c \in CallIds : kvCalls[c].ok => EffectPresent(kvCalls[c])))

\* ---- WebSocket handler ---------------------------------------------------------------
\* C39: a message sent to a player who has an open connection registered
\* with the handler goes to one of the player's open connections.
C39_SendReachesOpenConnection ==
  impl = "ws" => (sent.open # {} => sent.to \in sent.open)

\* ---- resource nodes --------------------------------------------------------------------
\* C40: once the engine is constructed, every resource node the map
\* generator produced is in the engine's resource table, and a gather action
\* that names it is accepted for every worker when sent by the worker's owner
\* (a node's amount is positive when it is generated).
C40_GeneratedNodesCanBeGathered ==
  (impl = "room" /\ MapReady) =>
    \A n \in 1..Len(mapGen.placed) :
      /\ n \in DOMAIN engine.resources
      /\ \A u \in 1..Len(engine.units) :
           engine.units[u].type = "worker" =>
             ProcessAction(engine, engine.units[u].ownerId, GatherAction(u, n)).ok

====
